---- MODULE Spec2Model ----
(***************************************************************************)
(* clipshot: the clipboard monitor daemon of src/src/monitor.ts.           *)
(*                                                                         *)
(* monitor.ts holds two definitions of the monitor (lines 1-301 and lines  *)
(* 303-577).  The variable defn says which of the two is running; the      *)
(* operators below follow the first definition and branch on defn where    *)
(* the second one differs.                                                 *)
(*                                                                         *)
(* The daemon is one Node.js event loop.  poll is an async function called *)
(* by setInterval: the code between two suspension points (an await of an  *)
(* operation that completes in a later turn of the event loop) runs        *)
(* without interruption and is one action here; an await of a value that   *)
(* is already settled (an async function whose body is synchronous) only   *)
(* defers to the microtask queue, where no timer or I/O callback can run,  *)
(* so it does not end an action.                                           *)
(***************************************************************************)
EXTENDS Integers, Sequences, FiniteSets, TLC

\* Bounds of the model.
MaxInflight == 2    \* poll invocations that may be suspended at the same time
MaxTime == 1        \* last wall-clock second the model distinguishes

Null == "null"
Unset == "unset"

\* Clipboard images (byte buffers) and their MD5 digests.
Buffers == {"imgA", "imgB"}

getImageHash(buffer) ==
    CASE buffer = "imgA" -> "md5-a"
      [] buffer = "imgB" -> "md5-b"
      [] OTHER -> "md5-other"

\* The argument of startMonitor.
Targets == {"local", "bob@srv"}

\* process.platform and /proc/version of the host.
Hosts == {"win32", "wsl", "unix"}

\* What the user may put on the clipboard besides an image.
OtherContent == "text"

VARIABLES
    defn,           \* which definition of monitor.ts runs: 1 or 2
    host,           \* the host the daemon runs on
    remote,         \* startMonitor's argument
    phase,          \* "init", "seeding", "running", "aborted", "crashed"
    startupError,   \* why startMonitor's promise rejected, or "none"
    logDir,         \* ~/.config/clipshot/logs: "exists", "absent" (mkdirSync can
                    \* create it) or "uncreatable" (mkdirSync throws)
    lastImageHash,  \* let lastImageHash
    clipboard,      \* the system clipboard: a buffer, a text, or OtherContent
    clipTouched,    \* the user changed the clipboard since the daemon started
    inflight,       \* the suspended poll invocations, oldest first
    lastTurn,       \* what the last step did, if it was the seeding or a turn of
                    \* a poll invocation: that invocation as the turn left it
    now,            \* the wall clock, in whole seconds
    env,            \* the environment startMonitor determined (line 234), or Unset
    flaky,          \* this run's reads of /proc/version may fail although the file exists
    \* The logger (followed in LogSpec; the other specifications leave it alone).
    logFile,        \* let logFile
    logStartTime,   \* let logStartTime, in milliseconds
    files,          \* the log files: name -> number of lines
    stdout,         \* the number of messages written to standard output
    background,     \* process.env.SHOTMON_BACKGROUND: Null (unset) or a string
    lastLog,        \* what the last step did, if it was a log call
    \* The remote path of pipeToRemote (followed in HintSpec).
    sshUser,        \* the user the ssh configuration gives for a host alias, or Null
    hint,           \* homeDir and remotePath as pipeToRemote computes them
    \* The local sink (followed in DiskSpec).
    clock,          \* the wall clock, in milliseconds
    disk,           \* the files of the local screenshot directory: path -> content
    saves,          \* the calls of saveLocal made so far, in order
    \* The screenshot directory of a macOS host (followed in WatchSpec).
    shot,           \* its newest file: modification time and bytes, or NoShot
    acquired,       \* the last acquisition poll made: when, and what it returned
    \* One call of pipeToRemote (followed in PipeSpec).
    proc,           \* the ssh subprocess: its state, its stderr, the events it emitted
    promise,        \* the promise pipeToRemote returned
    \* One call of getClipboardImageNative (followed in NativeSpec).
    native,         \* where the call stands, what the clipboard module answered
    \* The start command (followed in StartSpec).
    daemons,        \* the pids of the running clipshot daemons
    dying,          \* those of them a termination signal has reached
    cmd,            \* where startCommand stands, and what its scans listed
    \* One call of detectSSHFromHistory (followed in HistorySpec).
    history,        \* the shell history files, the call's limit and its result
    \* One call of addRemotes (followed in SetupSpec).
    setup           \* what was detected, what the user answered, the list

monitorVars == <<defn, host, remote, phase, startupError, logDir, lastImageHash,
                 clipboard, clipTouched, inflight, lastTurn, now, env, flaky>>

logVars == <<logFile, logStartTime, files, stdout, background, lastLog>>

hintVars == <<sshUser, hint>>

sinkVars == <<clock, disk, saves>>

\* What the specifications of single functions follow.
watchVars == <<shot, acquired>>

pipeVars == <<proc, promise>>

nativeVars == <<native>>

startVars == <<daemons, dying, cmd>>

configVars == <<history, setup>>

toolVars == <<sinkVars, watchVars, pipeVars, nativeVars, startVars, configVars>>

\* What each of these specifications leaves alone.
besidesSink ==
    <<monitorVars, logVars, hintVars, watchVars, pipeVars, nativeVars, startVars, configVars>>
besidesWatch == <<logVars, hintVars, disk, saves, pipeVars, nativeVars, startVars, configVars>>
besidesPipe ==
    <<monitorVars, logVars, hintVars, sinkVars, watchVars, nativeVars, startVars, configVars>>
besidesNative ==
    <<defn, host, remote, phase, startupError, logDir, lastImageHash, clipTouched,
      inflight, lastTurn, now, env, flaky, logVars, hintVars, sinkVars, watchVars,
      pipeVars, startVars, configVars>>
besidesStart ==
    <<monitorVars, logVars, hintVars, sinkVars, watchVars, pipeVars, nativeVars, configVars>>
besidesConfig ==
    <<monitorVars, logVars, hintVars, sinkVars, watchVars, pipeVars, nativeVars, startVars>>

vars == <<monitorVars, logVars, hintVars, toolVars>>

----------------------------------------------------------------------------
\* Platform resolution.

isWindows == host = "win32"

\* The text of /proc/version on each host (none on win32).
WslRelease == "Linux version 5.15.153.1-microsoft-standard-WSL2"
LinuxRelease == "Linux version 6.8.0-generic"

ProcVersion(h) ==
    CASE h = "wsl" -> WslRelease
      [] h = "unix" -> LinuxRelease
      [] OTHER -> Null

\* What one readFileSync("/proc/version") may give: the text, or Null when it
\* throws (no such file, or a transient failure such as EMFILE).  A failure
\* is followed only where it changes the answer of isWSL, and only in the
\* runs whose environment lets the read fail (flaky).
ReadProcVersion ==
    {ProcVersion(host)} \cup
    (IF ProcVersion(host) = WslRelease /\ flaky THEN {Null} ELSE {})

\* release.toLowerCase().includes("microsoft") || ...includes("wsl")
MentionsWSL(release) == release = WslRelease

\* isWSL(), given what its read of /proc/version returns.  The second
\* definition has no isWindows test.
isWSL(release) ==
    IF defn = 1 /\ isWindows THEN FALSE
    ELSE IF release = Null THEN FALSE ELSE MentionsWSL(release)

\* getClipboardImage / copyToClipboard pick the PowerShell / clip.exe variant
\* (lines 118 and 221).  The second definition has no isWindows: on win32
\* /proc/version is unreadable, isWSL() is false and the native variant is used.
UsesWindowsTools(release) ==
    IF defn = 1 THEN isWindows \/ isWSL(release) ELSE isWSL(release)

\* Line 234: the environment startMonitor logs.
Environment(release) ==
    IF defn = 1 /\ isWindows THEN "Windows"
    ELSE IF isWSL(release) THEN "WSL" ELSE "Native"

\* The strategy of an acquisition or clipboard write.
Strategy(release) == IF UsesWindowsTools(release) THEN "windows" ELSE "native"

----------------------------------------------------------------------------
\* Names and paths.

\* A plausible slip: the timestamp is cut after the minutes (slice(0, 16)).
generateFilenameByMinute(t) == "screenshot-" \o ToString(t \div 60) \o ".png"

\* generateFilename at second t: screenshot-<timestamp to the second>.png
\* (lines 128-132).
generateFilename(t) == "screenshot-" \o ToString(t) \o ".png"

getLocalScreenshotDir == "/home/me/clipshot-screenshots"

\* A target string as its "@" signs and the runs of other characters between
\* them, and the string of such a sequence.
TargetTokens ==
    { <<"local">>, <<"bob", "@", "srv">>, <<"root", "@", "srv">>,
      <<"alice", "@", "10.0.0.7">>, <<"srv">>, <<"devbox">> }

RECURSIVE Text(_)
Text(tokens) == IF tokens = <<>> THEN "" ELSE Head(tokens) \o Text(Tail(tokens))

Tokens(r) == CHOOSE tokens \in TargetTokens : Text(tokens) = r

\* remote.match(/^([^@]+)@/): a non-empty run without "@" at the start,
\* followed by "@"; the run is match[1].  Null without a match.
MatchUser(tokens) ==
    IF Len(tokens) >= 2 /\ tokens[1] # "@" /\ tokens[2] = "@" THEN tokens[1] ELSE Null

\* The match for each target string.
UserOf == [r \in {Text(tokens) : tokens \in TargetTokens} |-> MatchUser(Tokens(r))]

UserPart(r) == UserOf[r]

getRemoteHomePath(r) ==
    IF UserPart(r) # Null
    THEN (IF UserPart(r) = "root" THEN "/root" ELSE "/home/" \o UserPart(r))
    ELSE "~"

getRemoteHomeDir(r) ==
    LET user == IF UserPart(r) # Null THEN UserPart(r) ELSE "root"
    IN IF user = "root" THEN "/root" ELSE "/home/" \o user

RemoteHome(r) == IF defn = 1 THEN getRemoteHomePath(r) ELSE getRemoteHomeDir(r)

LocalPath(filename) == getLocalScreenshotDir \o "/" \o filename

RemotePath(r, filename) == RemoteHome(r) \o "/clipshot-screenshots/" \o filename

\* Where the sinks put the bytes: writeFileSync(filePath), and the command
\* given to ssh (the first definition writes below the remote shell's ~, the
\* second below homeDir).
LocalDest(filename) == [dir |-> getLocalScreenshotDir, name |-> filename]

RemoteDest(r, filename) ==
    [dir |-> (IF defn = 1 THEN "~" ELSE RemoteHome(r)) \o "/clipshot-screenshots",
     name |-> filename]

----------------------------------------------------------------------------
\* One poll invocation.
\*   pc      where it is suspended ("hasImage", "getImage", "sink", "setText"),
\*           "run" while it executes, "settled" / "rejected" once its promise is
\*   buf     imageBuffer (in lastTurn only: no code reads it after a suspension)
\*   cmp     the value of lastImageHash read by the comparison of line 260
\*           (in lastTurn only)
\*   novel   the branch of line 260 was taken
\*   file    filename
\*   sink    "none", "pending", "ok", "failed", "threw"
\*   path    result.path
\*   stderr  what the transport wrote to stderr, or its spawn error message
\*   trace   the calls it made, in order: <<"log", message, argument>>,
\*           <<"saveLocal", filename, path>>, <<"pipeToRemote", remote, path>>,
\*           <<"clip", strategy, text>>
\*   raised  an exception was thrown inside its try block
\*   exc     an exception is propagating; n counts the log calls of this turn
\*   cause   what threw: "none", "log", "spawn"
\*   ev      the event of the transport subprocess that resolved pipeToRemote
\*   stored  where the sink has put the bytes: [dir, name], NoDest before
\*   copied  the outcome of the clipboard write: "none", "ok", "failed"
\*   acq     the strategy of its acquisition: "none", "windows", "native"
\*           (until the acquisition is over)
NoEvent == [kind |-> "none", code |-> -1, text |-> ""]

NoDest == [dir |-> Null, name |-> Null]

NewTick ==
    [pc |-> "run", buf |-> Null, cmp |-> Unset, novel |-> FALSE, file |-> Null,
     sink |-> "none", path |-> Null, stderr |-> "", trace |-> <<>>,
     raised |-> FALSE, exc |-> FALSE, n |-> 0, cause |-> "none", ev |-> NoEvent,
     stored |-> NoDest, copied |-> "none", acq |-> "none"]

NoTick == [NewTick EXCEPT !.pc = "none"]

Suspended == {"hasImage", "getImage", "sink", "setText"}

\* What the transport subprocess may do: exit with a code, with or without
\* text on stderr, or fail to start.
TransportEvents ==
    { [kind |-> "close", code |-> 0, text |-> ""],
      [kind |-> "close", code |-> 1, text |-> "Permission denied"],
      [kind |-> "close", code |-> 1, text |-> ""],
      [kind |-> "error", code |-> 1, text |-> "spawn ssh ENOENT"] }

\* The messages poll logs (the text before the interpolated argument).
MsgNew == "New screenshot: "
MsgSaved == "  -> Saved: "
MsgSent == "  -> Sent to "
MsgCopied == "  -> Copied to clipboard"
MsgFailedLocal == "  -> Failed to save locally"
MsgFailedSend == "  -> Failed to send to "
MsgErrorDetail == "  -> Error: "
MsgException == "Error: "

\* The state a turn of poll works on: its invocation, the clipboard and
\* lastImageHash; called says that the turn called copyToClipboard, wrote that
\* it ran the synchronous clipboard writer.
Turn(t) ==
    [t |-> [t EXCEPT !.pc = "run", !.n = 0], clip |-> clipboard, last |-> lastImageHash,
     wrote |-> FALSE, called |-> FALSE]

\* log(message): the f-th log call of a turn throws (appendFileSync or
\* createNewLogFile fails), every other one appends a line.
log(s, msg, arg, f) ==
    IF s.t.exc THEN s
    ELSE IF s.t.n + 1 = f
         THEN [s EXCEPT !.t.exc = TRUE, !.t.raised = TRUE, !.t.cause = "log",
                        !.t.n = @ + 1]
         ELSE [s EXCEPT !.t.trace = Append(@, <<"log", msg, arg>>), !.t.n = @ + 1]

\* What getClipboardImage may return for a clipboard content: the image on
\* it, or null (no image, the tool failed or timed out).
AcquireOutcomes(clip) == {Null} \cup (IF clip \in Buffers THEN {clip} ELSE {})

\* A plausible slip: the comparison is lost and every image is delivered.
IsNovelAlways(currentHash, last) == TRUE

\* Line 260: currentHash !== lastImageHash.
IsNovel(currentHash, last) == currentHash # last

\* A plausible slip: lastImageHash is not updated when the branch is entered
\* (it is left for a later statement that a failure skips).
DetectWithoutUpdate(s, currentHash) ==
    [s EXCEPT !.t.novel = TRUE, !.t.file = generateFilename(now)]

\* Lines 261-263: lastImageHash = currentHash, then the filename.
Detect(s, currentHash) ==
    [s EXCEPT !.last = currentHash, !.t.novel = TRUE, !.t.file = generateFilename(now)]

\* A plausible slip: the path is copied whatever the result.
ShouldCopyAlways(success) == TRUE

\* Lines 270 and 279: if (result.success).
ShouldCopy(success) == success

\* A plausible slip: the failure of the synchronous clipboard tool is not
\* caught and reaches poll.
copyToClipboardRaising(s, text, clipOk, release) ==
    IF s.t.exc THEN s
    ELSE IF UsesWindowsTools(release)
         THEN [s EXCEPT !.t.trace = Append(@, <<"clip", "windows", text>>),
                        !.t.copied = IF clipOk THEN "ok" ELSE "failed",
                        !.t.exc = ~clipOk, !.t.raised = ~clipOk,
                        !.t.cause = IF clipOk THEN @ ELSE "clip",
                        !.clip = IF clipOk THEN text ELSE @, !.wrote = TRUE,
                        !.called = TRUE]
         ELSE [s EXCEPT !.t.trace = Append(@, <<"clip", "native", text>>),
                        !.t.pc = "setText", !.called = TRUE]

\* copyToClipboard(text): clip.exe / Set-Clipboard run synchronously and their
\* failure is swallowed; the native variant awaits Clipboard.setText.
copyToClipboard(s, text, clipOk, release) ==
    IF s.t.exc THEN s
    ELSE IF UsesWindowsTools(release)
         THEN [s EXCEPT !.t.trace = Append(@, <<"clip", "windows", text>>),
                        !.t.copied = IF clipOk THEN "ok" ELSE "failed",
                        !.clip = IF clipOk THEN text ELSE @, !.wrote = TRUE,
                        !.called = TRUE]
         ELSE [s EXCEPT !.t.trace = Append(@, <<"clip", "native", text>>),
                        !.t.pc = "setText", !.called = TRUE]

\* A plausible slip: the line after the clipboard write is lost.
AfterCopyNoLog(s, f) == s

\* Lines 273 and 282, after copyToClipboard has returned.
AfterCopy(s, f) == log(s, MsgCopied, "", f)

\* A plausible slip: the file's name is copied instead of its path.
CopyArgumentFilename(t) == t.file

\* Lines 272 and 281: the argument of copyToClipboard is result.path.
CopyArgument(t) == t.path

\* A plausible slip: every target is sent through the transport.
LocalBranchNever(r) == FALSE

\* Line 268: remote === "local".
LocalBranch(r) == r = "local"

\* Lines 270-276 and 279-288: what poll does with the sink's result.
OnResult(s, success, error, f, clipOk, release) ==
    IF ShouldCopy(success)
    THEN LET s1 == log(s, IF LocalBranch(remote) THEN MsgSaved ELSE MsgSent,
                       IF LocalBranch(remote) THEN s.t.path ELSE remote \o ":" \o s.t.path, f)
             s2 == copyToClipboard(s1, CopyArgument(s.t), clipOk, release)
         IN IF s2.t.pc = "setText" THEN s2 ELSE AfterCopy(s2, f)
    ELSE IF LocalBranch(remote)
         THEN log(s, MsgFailedLocal, "", f)
         ELSE LET s1 == log(s, MsgFailedSend, remote, f)
              IN IF defn = 1 /\ error # ""
                 THEN log(s1, MsgErrorDetail, error, f)
                 ELSE s1

\* saveLocal(imageBuffer, filename): writeOk says whether mkdirSync and
\* writeFileSync succeed.
saveLocal(s, writeOk) ==
    IF s.t.exc THEN s
    ELSE [s EXCEPT !.t.sink = IF writeOk THEN "ok" ELSE "failed",
                   !.t.path = LocalPath(s.t.file),
                   !.t.stored = IF writeOk THEN LocalDest(s.t.file) ELSE NoDest,
                   !.t.trace = Append(@, <<"saveLocal", s.t.file, LocalPath(s.t.file)>>)]

\* pipeToRemote(imageBuffer, remote, filename) up to its first suspension:
\* spawn either throws or starts the subprocess, whose stdin gets the bytes.
pipeToRemoteStart(s, spawnOk) ==
    IF s.t.exc THEN s
    ELSE IF spawnOk
         THEN [s EXCEPT !.t.sink = "pending", !.t.pc = "sink",
                        !.t.path = RemotePath(remote, s.t.file),
                        !.t.trace = Append(@, <<"pipeToRemote", remote, RemotePath(remote, s.t.file)>>)]
         ELSE [s EXCEPT !.t.sink = "threw", !.t.exc = TRUE, !.t.raised = TRUE,
                        !.t.cause = "spawn"]

\* A plausible slip: the sink is called before the 'New screenshot' line is
\* logged.
DeliverSinkFirst(s, f, writeOk, spawnOk, clipOk, release) ==
    LET currentHash == getImageHash(s.t.buf)
        s0 == [s EXCEPT !.t.cmp = s.last]
    IN IF ~IsNovel(currentHash, s.last) THEN s0
       ELSE LET s1 == Detect(s0, currentHash)
            IN IF LocalBranch(remote)
               THEN LET s2 == saveLocal(s1, writeOk)
                        s3 == log(s2, MsgNew, s1.t.file, f)
                    IN IF s3.t.exc THEN s3
                       ELSE OnResult(s3, s3.t.sink = "ok", "", f, clipOk, release)
               ELSE log(pipeToRemoteStart(s1, spawnOk), MsgNew, s1.t.file, f)

\* Lines 258-290 of poll, entered with a non-null imageBuffer.
Deliver(s, f, writeOk, spawnOk, clipOk, release) ==
    LET currentHash == getImageHash(s.t.buf)
        s0 == [s EXCEPT !.t.cmp = s.last]
    IN IF ~IsNovel(currentHash, s.last) THEN s0
       ELSE LET s1 == Detect(s0, currentHash)
                s2 == log(s1, MsgNew, s1.t.file, f)
            IN IF LocalBranch(remote)
               THEN LET s3 == saveLocal(s2, writeOk)
                    IN IF s3.t.exc THEN s3
                       ELSE OnResult(s3, s3.t.sink = "ok", "", f, clipOk, release)
               ELSE pipeToRemoteStart(s2, spawnOk)

\* Lines 291-293 and the end of poll: the catch handler logs the exception;
\* if that log call throws too, poll's promise rejects.
Finish(s, catchOk) ==
    LET t == s.t
        t1 == IF t.exc
              THEN (IF catchOk
                    THEN [t EXCEPT !.trace = Append(@, <<"log", MsgException, "exception">>),
                                   !.exc = FALSE, !.pc = "settled"]
                    ELSE [t EXCEPT !.pc = "rejected"])
              ELSE IF t.pc \in Suspended THEN t ELSE [t EXCEPT !.pc = "settled"]
    IN [s EXCEPT !.t = [t1 EXCEPT !.n = 0]]

----------------------------------------------------------------------------
\* The event loop.

RemoveAt(seq, i) == SubSeq(seq, 1, i - 1) \o SubSeq(seq, i + 1, Len(seq))

\* A suspended invocation keeps what its continuation reads.
Park(t) ==
    [t EXCEPT !.buf = Null, !.cmp = Unset,
              !.acq = IF t.pc \in {"hasImage", "getImage"} THEN @ ELSE "none"]

\* The timeout, in milliseconds, of each external invocation a poll
\* invocation makes; 0 where the code sets none.  execSync gets one (lines 85,
\* 200 and 203); spawn("ssh", ...) (lines 169-174) and the calls of the
\* clipboard module (lines 103, 107 and 214) get none.
Timeout(call) ==
    CASE call = "powershell" -> 5000
      [] call = "clip.exe" -> 2000
      [] call = "Set-Clipboard" -> 2000
      [] OTHER -> 0

\* The values an input of a turn ranges over: both when the turn can read
\* it, one otherwise.
Choice(readable) == IF readable THEN BOOLEAN ELSE {TRUE}

\* The end of a turn of the invocation at position i of inflight (0: a new
\* invocation).  A rejected poll promise has no handler: Node terminates the
\* process on it (--unhandled-rejections=throw, the default since Node 15) or
\* only warns (older versions); fatal is that choice.
EndTurn(i, s, fatal) ==
    /\ inflight' = IF s.t.pc \in Suspended
                   THEN (IF i = 0 THEN Append(inflight, Park(s.t))
                         ELSE [inflight EXCEPT ![i] = Park(s.t)])
                   ELSE (IF i = 0 THEN inflight ELSE RemoveAt(inflight, i))
    /\ lastTurn' = s.t
    /\ lastImageHash' = s.last
    /\ clipboard' = s.clip
    /\ phase' = IF s.t.pc = "rejected" /\ fatal THEN "crashed" ELSE phase
    /\ UNCHANGED <<defn, host, remote, startupError, logDir, clipTouched, now, env,
                   flaky>>
    /\ UNCHANGED <<logVars, hintVars, toolVars>>

\* A plausible slip: the failure of mkdirSync is swallowed.
ensureLogDirSwallowing(dirState) == TRUE

\* ensureLogDir: the directory exists, or mkdirSync creates it or throws.
\* TRUE when it returns, FALSE when it throws.
ensureLogDir(dirState) == dirState # "uncreatable"

\* startMonitor up to line 243: createNewLogFile, then the startup log lines.
\* An exception of either rejects startMonitor's promise; main's promise
\* rejects with it, console.error prints it and the process ends, nothing
\* being scheduled.
StartMonitor ==
    /\ phase = "init"
    /\ \E appendOk \in BOOLEAN, release \in ReadProcVersion :
         /\ startupError' = IF ~ensureLogDir(logDir) THEN "mkdir"
                            ELSE IF ~appendOk THEN "append" ELSE "none"
         /\ phase' = IF startupError' = "none" THEN "seeding" ELSE "aborted"
         /\ env' = IF ensureLogDir(logDir) THEN Environment(release) ELSE env
         /\ ensureLogDir(logDir) \/ release = ProcVersion(host)
    /\ logDir' = IF logDir = "absent" THEN "exists" ELSE logDir
    /\ lastTurn' = NoTick
    /\ UNCHANGED <<defn, host, remote, lastImageHash, clipboard,
                   clipTouched, inflight, now, flaky>>
    /\ UNCHANGED <<logVars, hintVars, toolVars>>

\* A plausible slip: the seeding acquisition is made but its fingerprint is
\* not stored.
SeedHashNotStored(image, last) == last

\* Lines 246-248: the fingerprint of the initial image, if there is one.
SeedHash(image, last) == IF image # Null THEN getImageHash(image) ELSE last

\* Lines 245-248 and 297: the seeding acquisition, then setInterval.  No other
\* code of the daemon runs while the acquisition is awaited.
Seed ==
    /\ phase = "seeding"
    /\ \E image \in AcquireOutcomes(clipboard), release \in ReadProcVersion :
         /\ lastTurn' = [NewTick EXCEPT !.pc = "seed", !.buf = image,
                                        !.acq = Strategy(release)]
         /\ lastImageHash' = SeedHash(image, lastImageHash)
    /\ phase' = "running"
    /\ UNCHANGED <<defn, host, remote, startupError, logDir, clipboard, clipTouched,
                   inflight, now, env, flaky>>
    /\ UNCHANGED <<logVars, hintVars, toolVars>>

\* The end of a turn that ran r: the catch handler if an exception
\* propagates, then poll suspends or its promise settles.
\* (A turn's state is bound by a quantifier over a singleton wherever an
\* action takes it as a parameter, so that it is computed once.)
Settle(i, r) ==
    \E catchOk \in Choice(r.t.exc) :
      \E fatal \in (IF catchOk THEN {FALSE} ELSE BOOLEAN), s \in {Finish(r, catchOk)} :
        EndTurn(i, s, fatal)

\* A plausible slip: without an image the last fingerprint is forgotten.
ReturnNullForgetting(s) == [s EXCEPT !.last = Null]

\* Lines 254-256: poll returns, having changed nothing.
ReturnNull(s) == s

\* A plausible slip: the guard on the acquired buffer is lost.
NoImageNever(imageBuffer) == FALSE

\* Line 254: if (!imageBuffer) return.
NoImage(imageBuffer) == imageBuffer = Null

\* A turn that enters line 254 with the acquired imageBuffer.  Its inputs:
\* which log call throws (f, 0 for none), whether the local write, the spawn
\* and the synchronous clipboard write succeed.
CompareTurn(i, t) ==
    IF NoImage(t.buf)
    THEN \E r \in {ReturnNull(Turn(t))} : Settle(i, r)
    ELSE \E f \in 0..3, writeOk \in Choice(remote = "local"),
            spawnOk \in Choice(remote # "local"), clipOk \in BOOLEAN,
            release \in ReadProcVersion :
           \E r \in {Deliver(Turn(t), f, writeOk, spawnOk, clipOk, release)} :
              /\ f <= r.t.n
              /\ clipOk \/ r.wrote
              /\ r.called \/ release = ProcVersion(host)
              /\ Settle(i, r)

\* The interval timer calls poll (line 252).  The PowerShell variant runs
\* execSync and goes on to the comparison in the same turn; the native variant
\* awaits Clipboard.hasImage(), or returns null when the module cannot be
\* loaded.
PollStart ==
    /\ phase = "running"
    /\ Len(inflight) < MaxInflight
    /\ \E release \in ReadProcVersion :
         LET t == [NewTick EXCEPT !.acq = Strategy(release)]
         IN IF UsesWindowsTools(release)
            THEN \E image \in AcquireOutcomes(clipboard) :
                   \E got \in {[t EXCEPT !.buf = image]} : CompareTurn(0, got)
            ELSE \E requireOk \in BOOLEAN, r \in {Turn(t)} :
                   IF requireOk
                   THEN \E s \in {[r EXCEPT !.t.pc = "hasImage"]} : EndTurn(0, s, FALSE)
                   ELSE \E none \in {ReturnNull(r)} : Settle(0, none)

\* Clipboard.hasImage() settles (lines 103-107).
HasImageDone ==
    /\ phase = "running"
    /\ \E i \in 1..Len(inflight), toolOk \in BOOLEAN :
         /\ inflight[i].pc = "hasImage"
         /\ toolOk \/ clipboard \in Buffers
         /\ IF toolOk /\ clipboard \in Buffers
            THEN \E s \in {[Turn(inflight[i]) EXCEPT !.t.pc = "getImage"]} :
                   EndTurn(i, s, FALSE)
            ELSE \E r \in {ReturnNull(Turn(inflight[i]))} : Settle(i, r)

\* Clipboard.getImageBase64() settles (lines 107-111), and poll goes on.
GetImageDone ==
    /\ phase = "running"
    /\ \E i \in 1..Len(inflight), image \in AcquireOutcomes(clipboard) :
         /\ inflight[i].pc = "getImage"
         /\ \E got \in {[inflight[i] EXCEPT !.buf = image]} : CompareTurn(i, got)

\* result.error of pipeToRemote: the first definition attaches stderr or the
\* spawn error's message, the second has no such field.
ResultError(ev) == IF defn = 1 THEN ev.text ELSE ""

\* A plausible slip: any exit of the subprocess counts as a success.
TransportSuccessOnAnyExit(ev) == ev.kind = "close"

\* Lines 186 and 190: success is code === 0 on 'close', false on 'error'.
TransportSuccess(ev) == IF ev.kind = "close" THEN ev.code = 0 ELSE FALSE

\* The subprocess's 'close' or 'error' event resolves pipeToRemote (lines
\* 184-191), and poll goes on at line 279.
SinkDone ==
    /\ phase = "running"
    /\ \E i \in 1..Len(inflight), ev \in TransportEvents, f \in 0..3,
          clipOk \in BOOLEAN, release \in ReadProcVersion :
         /\ inflight[i].pc = "sink"
         /\ LET success == TransportSuccess(ev)
                s == Turn([inflight[i] EXCEPT !.sink = IF success THEN "ok" ELSE "failed",
                                              !.stderr = ev.text, !.ev = ev,
                                              !.stored = IF ev.kind = "close" /\ ev.code = 0
                                                         THEN RemoteDest(remote, inflight[i].file)
                                                         ELSE NoDest])
            IN \E r \in {OnResult(s, success, ResultError(ev), f, clipOk, release)} :
               /\ f <= r.t.n
               /\ clipOk \/ r.wrote
               /\ r.called \/ release = ProcVersion(host)
               /\ Settle(i, r)

\* Lines 181-182: the write to the subprocess's stdin fails (EPIPE: the
\* subprocess is gone).  proc.stdin has no 'error' listener, so the event is
\* thrown as an uncaught exception and ends the process.
StdinError ==
    /\ phase = "running"
    /\ \E i \in 1..Len(inflight) : inflight[i].pc = "sink"
    /\ phase' = "crashed"
    /\ lastTurn' = NoTick
    /\ UNCHANGED <<defn, host, remote, startupError, logDir, lastImageHash,
                   clipboard, clipTouched, inflight, now, env, flaky>>
    /\ UNCHANGED <<logVars, hintVars, toolVars>>

\* Clipboard.setText settles (lines 214-217, its failure swallowed), and poll
\* goes on at line 273 / 282.
SetTextDone ==
    /\ phase = "running"
    /\ \E i \in 1..Len(inflight), f \in 0..1, clipOk \in BOOLEAN :
         /\ inflight[i].pc = "setText"
         /\ LET s == Turn(inflight[i])
                s1 == [s EXCEPT !.clip = IF clipOk THEN CopyArgument(s.t) ELSE @,
                                !.t.copied = IF clipOk THEN "ok" ELSE "failed"]
            IN \E r \in {AfterCopy(s1, f)} : Settle(i, r)

\* The user copies an image or something else.
UserCopy ==
    /\ phase \in {"seeding", "running"}
    /\ \E c \in Buffers \cup {OtherContent} :
         /\ c # clipboard
         /\ clipboard' = c
    /\ clipTouched' = TRUE
    /\ lastTurn' = NoTick
    /\ UNCHANGED <<defn, host, remote, phase, startupError, logDir,
                   lastImageHash, inflight, now, env, flaky>>
    /\ UNCHANGED <<logVars, hintVars, toolVars>>

\* A second passes.
Advance ==
    /\ phase \in {"seeding", "running"}
    /\ now < MaxTime
    /\ now' = now + 1
    /\ lastTurn' = NoTick
    /\ UNCHANGED <<defn, host, remote, phase, startupError, logDir,
                   lastImageHash, clipboard, clipTouched, inflight, env, flaky>>
    /\ UNCHANGED <<logVars, hintVars, toolVars>>

\* The logger and the remote path before anything has used them.
NoLog == [called |-> FALSE, threw |-> FALSE, file |-> Null]

NoHint == [home |-> Unset, path |-> Unset]

LogIdle ==
    /\ logFile = Null
    /\ logStartTime = 0
    /\ files = <<>>
    /\ stdout = 0
    /\ background = Null
    /\ lastLog = NoLog

HintIdle == sshUser = Null /\ hint = NoHint

SinkIdle == clock = 0 /\ disk = <<>> /\ saves = <<>>

NoShot == [mtime |-> -1, bytes |-> Null]

NoAcquisition == [at |-> -1, prev |-> -1, image |-> Null, source |-> "none"]

WatchIdle == shot = NoShot /\ acquired = NoAcquisition

NoProc == [state |-> "none", stderr |-> "", events |-> <<>>]

NoPromise == [state |-> "none", value |-> Null, path |-> Null, calls |-> 0]

PipeIdle == proc = NoProc /\ promise = NoPromise

NoCall ==
    [pc |-> "none", has |-> "none", base64 |-> "none", extractions |-> 0, ret |-> Unset]

NativeIdle == native = NoCall

NoCommand ==
    [pc |-> "none", processes |-> {}, remaining |-> {}, child |-> 0,
     config |-> [file |-> Unset, remotes |-> <<>>], selected |-> Unset,
     status |-> Unset, arg |-> Unset, monitor |-> Unset]

StartIdle == daemons = {} /\ dying = {} /\ cmd = NoCommand

NoHistory == [bash |-> <<>>, zsh |-> <<>>, pc |-> "none", limit |-> 0, result |-> <<>>]

NoSetup ==
    [pc |-> "none", existing |-> <<>>, detected |-> <<>>, remotes |-> <<>>, inputs |-> 0]

ConfigIdle == history = NoHistory /\ setup = NoSetup

ToolIdle == SinkIdle /\ WatchIdle /\ PipeIdle /\ NativeIdle /\ StartIdle /\ ConfigIdle

Init ==
    /\ defn \in {1, 2}
    /\ host \in Hosts
    /\ defn = 2 => host # "win32"   \* there it behaves as on "unix"
    /\ remote \in Targets
    /\ phase = "init"
    /\ startupError = "none"
    /\ logDir \in {"exists", "absent", "uncreatable"}
    /\ lastImageHash = Null
    /\ clipboard \in Buffers \cup {OtherContent}
    /\ clipTouched = FALSE
    /\ inflight = <<>>
    /\ lastTurn = NoTick
    /\ now = 0
    /\ env = Unset
    /\ flaky = FALSE
    /\ LogIdle
    /\ HintIdle
    /\ ToolIdle

Next ==
    \/ StartMonitor
    \/ Seed
    \/ PollStart
    \/ HasImageDone
    \/ GetImageDone
    \/ SinkDone
    \/ StdinError
    \/ SetTextDone
    \/ UserCopy
    \/ Advance

Spec == Init /\ [][Next]_vars

\* The daemon on a WSL host whose reads of /proc/version may fail.
FlakyInit ==
    /\ defn \in {1, 2}
    /\ host = "wsl"
    /\ remote \in Targets
    /\ phase = "init"
    /\ startupError = "none"
    /\ logDir = "exists"
    /\ lastImageHash = Null
    /\ clipboard \in Buffers \cup {OtherContent}
    /\ clipTouched = FALSE
    /\ inflight = <<>>
    /\ lastTurn = NoTick
    /\ now = 0
    /\ env = Unset
    /\ flaky = TRUE
    /\ LogIdle
    /\ HintIdle
    /\ ToolIdle

FlakySpec == FlakyInit /\ [][Next]_vars

----------------------------------------------------------------------------
\* The logger: startMonitor's first two statements and log, at the times the
\* daemon calls them.  Time is now, in seconds; Date.now() is now * 1000.

LOG_MAX_AGE_MS == 3600000

MaxLogTime == 7320      \* last second the logger is followed to
MaxLines == 3           \* lines the logger is followed for

\* How much time passes between two steps: 30, 60 and 61 minutes.
Steps == {1800, 3600, 3660}

\* The values of SHOTMON_BACKGROUND: unset, empty, and what startBackground
\* sets (index.ts 161 and 168).
EnvValues == {Null, "", "1"}

\* createNewLogFile's name: the ISO timestamp cut to the second (lines 41-42).
LogName(t) == "clipshot-" \o ToString(t) \o ".log"

LinesIn(fs, f) == IF f \in DOMAIN fs THEN fs[f] ELSE 0

RECURSIVE SumLines(_, _)
SumLines(fs, names) ==
    IF names = {} THEN 0
    ELSE LET f == CHOOSE x \in names : TRUE
         IN fs[f] + SumLines(fs, names \ {f})

\* fs.appendFileSync(logFile, line): one more line (the file is created when
\* it does not exist).
AppendLine(lines) == lines + 1

AppendTo(fs, f) ==
    IF f \in DOMAIN fs THEN [fs EXCEPT ![f] = AppendLine(@)]
    ELSE fs @@ (f :> AppendLine(0))

\* A plausible slip: the session rotates as soon as it is one hour old.
NeedsNewFileAtOneHour(file, nowMs, start) ==
    file = Null \/ (nowMs - start) >= LOG_MAX_AGE_MS

\* Line 52: !logFile || (now - logStartTime) > LOG_MAX_AGE_MS.
NeedsNewFile(file, nowMs, start) ==
    file = Null \/ (nowMs - start) > LOG_MAX_AGE_MS

\* A plausible slip: the message is echoed whatever the environment says.
EchoesAlways(value) == TRUE

\* Line 61: !process.env.SHOTMON_BACKGROUND (unset and "" are falsy).
Echoes(value) == value = Null \/ value = ""

\* Lines 230-231: logFile = createNewLogFile(); logStartTime = Date.now().
\* When mkdirSync throws, startMonitor's promise rejects.
StartSession ==
    /\ phase = "init"
    /\ IF ensureLogDir(logDir)
       THEN /\ logFile' = LogName(now)
            /\ logStartTime' = now * 1000
            /\ logDir' = "exists"
            /\ phase' = "running"
            /\ UNCHANGED startupError
       ELSE /\ phase' = "aborted"
            /\ startupError' = "mkdir"
            /\ UNCHANGED <<logFile, logStartTime, logDir>>
    /\ lastLog' = NoLog
    /\ UNCHANGED <<defn, host, remote, lastImageHash, clipboard, clipTouched,
                   inflight, lastTurn, now, env, flaky>>
    /\ UNCHANGED <<files, stdout, background, hintVars, toolVars>>

\* log(message), lines 46-64.  createNewLogFile throws when the directory
\* cannot be created, before logFile is assigned; appendFileSync throws when
\* the directory is missing or when the write fails (appendOk), before the
\* echo.
LogCall ==
    /\ phase = "running"
    /\ SumLines(files, DOMAIN files) < MaxLines
    /\ \E appendOk \in BOOLEAN :
         LET nowMs == now * 1000
             rotate == NeedsNewFile(logFile, nowMs, logStartTime)
             created == rotate /\ ensureLogDir(logDir)
             mkdirThrows == rotate /\ ~ensureLogDir(logDir)
             dirAfter == IF created THEN "exists" ELSE logDir
             file == IF created THEN LogName(now) ELSE logFile
             appended == ~mkdirThrows /\ dirAfter = "exists" /\ appendOk
         IN /\ logFile' = file
            /\ logStartTime' = IF created THEN nowMs ELSE logStartTime
            /\ logDir' = dirAfter
            /\ files' = IF appended THEN AppendTo(files, file) ELSE files
            /\ stdout' = IF appended /\ Echoes(background) THEN stdout + 1 ELSE stdout
            /\ lastLog' = [called |-> TRUE, threw |-> ~appended,
                           file |-> IF appended THEN file ELSE Null]
    /\ UNCHANGED <<defn, host, remote, phase, startupError, lastImageHash, clipboard,
                   clipTouched, inflight, lastTurn, now, env, flaky>>
    /\ UNCHANGED <<background, hintVars, toolVars>>

\* Time passes between two calls.
Pass ==
    /\ phase = "running"
    /\ \E d \in Steps :
         /\ now + d <= MaxLogTime
         /\ now' = now + d
    /\ lastLog' = NoLog
    /\ UNCHANGED <<defn, host, remote, phase, startupError, logDir, lastImageHash,
                   clipboard, clipTouched, inflight, lastTurn, env, flaky>>
    /\ UNCHANGED <<logFile, logStartTime, files, stdout, background, hintVars, toolVars>>

\* The log directory is moved away or made unwritable while the daemon runs.
DirLost ==
    /\ phase = "running"
    /\ logDir = "exists"
    /\ logDir' \in {"absent", "uncreatable"}
    /\ lastLog' = NoLog
    /\ UNCHANGED <<defn, host, remote, phase, startupError, lastImageHash,
                   clipboard, clipTouched, inflight, lastTurn, now, env, flaky>>
    /\ UNCHANGED <<logFile, logStartTime, files, stdout, background, hintVars, toolVars>>

LogInit ==
    /\ defn = 1
    /\ host = "unix"
    /\ remote = "local"
    /\ phase = "init"
    /\ startupError = "none"
    /\ logDir \in {"exists", "absent", "uncreatable"}
    /\ lastImageHash = Null
    /\ clipboard = OtherContent
    /\ clipTouched = FALSE
    /\ inflight = <<>>
    /\ lastTurn = NoTick
    /\ now = 0
    /\ env = Unset
    /\ flaky = FALSE
    /\ logFile = Null
    /\ logStartTime = 0
    /\ files = <<>>
    /\ stdout = 0
    /\ background \in EnvValues
    /\ lastLog = NoLog
    /\ HintIdle
    /\ ToolIdle

LogNext ==
    \/ StartSession
    \/ LogCall
    \/ Pass
    \/ DirLost

LogSpec == LogInit /\ [][LogNext]_vars

----------------------------------------------------------------------------
\* The remote path: what pipeToRemote computes from its arguments (lines
\* 164-165), for the targets a user may configure.

HintTargets == {"bob@srv", "root@srv", "alice@10.0.0.7", "srv", "devbox"}

\* What the ssh configuration says about the user of a host alias: nothing,
\* or a user name.
SshUsers == {Null, "bob", "root"}

\* Line 164: const homeDir = getRemoteHomePath(remote).
HomeDir ==
    /\ hint.home = Unset
    /\ hint' = [hint EXCEPT !.home = RemoteHome(remote)]
    /\ UNCHANGED <<monitorVars, logVars, sshUser, toolVars>>

\* Line 165: const remotePath.
RemoteTarget ==
    /\ hint.home # Unset
    /\ hint.path = Unset
    /\ hint' = [hint EXCEPT !.path = RemotePath(remote, generateFilename(now))]
    /\ UNCHANGED <<monitorVars, logVars, sshUser, toolVars>>

HintInit ==
    /\ defn \in {1, 2}
    /\ host = "unix"
    /\ remote \in HintTargets
    /\ phase = "running"
    /\ startupError = "none"
    /\ logDir = "exists"
    /\ lastImageHash = Null
    /\ clipboard = OtherContent
    /\ clipTouched = FALSE
    /\ inflight = <<>>
    /\ lastTurn = NoTick
    /\ now \in 0..MaxTime
    /\ env = Unset
    /\ flaky = FALSE
    /\ LogIdle
    /\ sshUser \in SshUsers
    /\ hint = NoHint
    /\ ToolIdle

HintNext ==
    \/ HomeDir
    \/ RemoteTarget

HintSpec == HintInit /\ [][HintNext]_vars

----------------------------------------------------------------------------
\* The local sink: generateFilename and saveLocal, called at the times and
\* with the buffers poll may call them.

MaxSaves == 2       \* calls of saveLocal that are followed

\* toISOString() is YYYY-MM-DDTHH:mm:ss.sssZ; slice(0, 19) cuts the
\* milliseconds off (line 130): the name is made from the whole second.
Seconds(ms) == ms \div 1000

\* fs.readFileSync(path): the content, Null when there is no such file.
ReadBack(fs, p) == IF p \in DOMAIN fs THEN fs[p] ELSE Null

\* What a failed writeFileSync may leave at the path.
Truncated == "truncated"

\* A plausible slip: the directory is emptied before the file is written.
WriteFileAlone(fs, p, bytes) == (p :> bytes)

\* fs.writeFileSync(filePath, imageBuffer), line 145: creates or replaces the
\* file at that path and leaves every other file alone.
WriteFile(fs, p, bytes) ==
    IF p \in DOMAIN fs THEN [fs EXCEPT ![p] = bytes] ELSE fs @@ (p :> bytes)

\* saveLocal(imageBuffer, filename) at time clock, with the filename poll
\* gives it (line 263).  outcome: the write succeeds, fails before the file
\* is opened, or fails after it was opened (and truncated).
SaveLocalCall ==
    /\ Len(saves) < MaxSaves
    /\ \E imageBuffer \in Buffers, outcome \in {"ok", "untouched", "truncated"} :
         LET filename == generateFilename(Seconds(clock))
             filePath == LocalPath(filename)
         IN /\ disk' = CASE outcome = "ok" -> WriteFile(disk, filePath, imageBuffer)
                         [] outcome = "truncated" -> WriteFile(disk, filePath, Truncated)
                         [] OTHER -> disk
            /\ saves' = Append(saves, [bytes |-> imageBuffer, at |-> clock,
                                       file |-> filename, path |-> filePath,
                                       success |-> outcome = "ok"])
    /\ UNCHANGED <<besidesSink, clock>>

\* Half a second or a second passes.
ClockTick ==
    /\ \E d \in {500, 1000} :
         /\ clock + d <= 1000 * MaxTime + 999
         /\ clock' = clock + d
    /\ UNCHANGED <<besidesSink, disk, saves>>

\* The monitor as the specifications of single functions leave it.
MonitorIdle ==
    /\ defn = 1
    /\ host = "unix"
    /\ remote = "local"
    /\ phase = "running"
    /\ startupError = "none"
    /\ logDir = "exists"
    /\ lastImageHash = Null
    /\ clipboard = OtherContent
    /\ clipTouched = FALSE
    /\ inflight = <<>>
    /\ lastTurn = NoTick
    /\ now = 0
    /\ env = Unset
    /\ flaky = FALSE

DiskInit ==
    /\ MonitorIdle
    /\ LogIdle
    /\ HintIdle
    /\ ToolIdle

DiskNext ==
    \/ SaveLocalCall
    \/ ClockTick

DiskSpec == DiskInit /\ [][DiskNext]_vars

----------------------------------------------------------------------------
\* A macOS host: the user saves screenshots to the screenshot directory
\* (Cmd+Shift+3/4/5, README lines 43 and 55) while the daemon polls.  On
\* darwin isWindows is false and /proc/version does not exist, so
\* getClipboardImage calls getClipboardImageNative (lines 117-122), which
\* reads the clipboard; no code of monitor.ts lists a directory.

MaxWatchClock == 600    \* the last millisecond followed

\* The debounce window of the claimed file-watch source, in milliseconds.
DebounceMs == 300

\* The user saves a screenshot: a new file, the newest of the directory; the
\* clipboard is not touched.
SaveScreenshot ==
    /\ shot.mtime < clock
    /\ \E bytes \in Buffers : shot' = [mtime |-> clock, bytes |-> bytes]
    /\ UNCHANGED <<monitorVars, besidesWatch, clock, acquired>>

\* One acquisition of poll (line 252) on this host.
AcquireOnMac ==
    /\ acquired.at < clock
    /\ ~UsesWindowsTools(ProcVersion(host))
    /\ \E image \in AcquireOutcomes(clipboard) :
         acquired' = [at |-> clock, prev |-> acquired.at, image |-> image,
                      source |-> "clipboard"]
    /\ UNCHANGED <<monitorVars, besidesWatch, clock, shot>>

\* 100 or 200 ms pass (POLL_INTERVAL_MS is 200).
Elapse ==
    /\ \E d \in {100, 200} :
         /\ clock + d <= MaxWatchClock
         /\ clock' = clock + d
    /\ UNCHANGED <<monitorVars, besidesWatch, shot, acquired>>

WatchInit ==
    /\ defn \in {1, 2}
    /\ host = "darwin"
    /\ remote = "local"
    /\ phase = "running"
    /\ startupError = "none"
    /\ logDir = "exists"
    /\ lastImageHash = Null
    /\ clipboard \in Buffers \cup {OtherContent}
    /\ clipTouched = FALSE
    /\ inflight = <<>>
    /\ lastTurn = NoTick
    /\ now = 0
    /\ env = Unset
    /\ flaky = FALSE
    /\ LogIdle
    /\ HintIdle
    /\ ToolIdle

WatchNext ==
    \/ SaveScreenshot
    \/ AcquireOnMac
    \/ Elapse

WatchSpec == WatchInit /\ [][WatchNext]_vars

----------------------------------------------------------------------------
\* One call of pipeToRemote (lines 163-193): the promise it returns and the
\* events of the ssh subprocess that resolve it.  Node emits 'error' when
\* the subprocess cannot be spawned, and may emit 'close' after it; a
\* subprocess that was spawned emits 'close' once, with its exit code.

\* The exit codes of ssh: 0, the remote command's, 255 for a failed connection.
ExitCodes == {0, 1, 255}

\* The code of the 'close' event that follows a failed spawn (-errno).
SpawnFailureCode == 0 - 2

\* A plausible slip: a later call of resolve replaces the result.
ResolveLast(p, v) == [p EXCEPT !.state = "fulfilled", !.value = v, !.calls = @ + 1]

\* resolve(value) of the promise of line 167: the first call fulfils it, a
\* later call has no effect.
Resolve(p, v) ==
    IF p.state = "pending"
    THEN [p EXCEPT !.state = "fulfilled", !.value = v, !.calls = @ + 1]
    ELSE [p EXCEPT !.calls = @ + 1]

\* Lines 186 and 190: the value an event resolves the promise with.
ResultOf(ev, remotePath) ==
    [success |-> TransportSuccess(ev), path |-> remotePath, error |-> ResultError(ev)]

\* Lines 164-182: the path, the promise, the subprocess and the listeners;
\* if spawn throws, the promise is rejected and there is no subprocess.
PipeToRemoteCall ==
    /\ proc.state = "none"
    /\ \E t \in 0..MaxTime, spawnOk \in BOOLEAN :
         /\ promise' = [NoPromise EXCEPT !.state = IF spawnOk THEN "pending" ELSE "rejected",
                                         !.path = RemotePath(remote, generateFilename(t))]
         /\ proc' = [NoProc EXCEPT !.state = IF spawnOk THEN "spawning" ELSE "threw"]
    /\ UNCHANGED besidesPipe

\* The subprocess runs.
Spawned ==
    /\ proc.state = "spawning"
    /\ proc' = [proc EXCEPT !.state = "running"]
    /\ UNCHANGED <<besidesPipe, promise>>

\* Lines 176-179: the subprocess writes to its stderr.
StderrData ==
    /\ proc.state = "running"
    /\ proc.stderr = ""
    /\ proc' = [proc EXCEPT !.stderr = "Permission denied"]
    /\ UNCHANGED <<besidesPipe, promise>>

\* Lines 189-191: ssh cannot be spawned, the 'error' listener runs.
ErrorEvent ==
    /\ proc.state = "spawning"
    /\ \E ev \in {[kind |-> "error", code |-> 1, text |-> "spawn ssh ENOENT"]} :
         /\ proc' = [proc EXCEPT !.state = "failed", !.events = Append(@, ev)]
         /\ promise' = Resolve(promise, ResultOf(ev, promise.path))
    /\ UNCHANGED besidesPipe

\* Lines 184-187: the 'close' listener runs, with the exit code of the
\* subprocess or, after a failed spawn, with the error's code.
CloseEvent ==
    /\ proc.state \in {"running", "failed"}
    /\ \E code \in (IF proc.state = "running" THEN ExitCodes ELSE {SpawnFailureCode}) :
         \E ev \in {[kind |-> "close", code |-> code, text |-> proc.stderr]} :
           /\ proc' = [proc EXCEPT !.state = "closed", !.events = Append(@, ev)]
           /\ promise' = Resolve(promise, ResultOf(ev, promise.path))
    /\ UNCHANGED besidesPipe

PipeInit ==
    /\ defn \in {1, 2}
    /\ host \in Hosts
    /\ remote \in HintTargets
    /\ phase = "running"
    /\ startupError = "none"
    /\ logDir = "exists"
    /\ lastImageHash = Null
    /\ clipboard = OtherContent
    /\ clipTouched = FALSE
    /\ inflight = <<>>
    /\ lastTurn = NoTick
    /\ now = 0
    /\ env = Unset
    /\ flaky = FALSE
    /\ LogIdle
    /\ HintIdle
    /\ ToolIdle

PipeNext ==
    \/ PipeToRemoteCall
    \/ Spawned
    \/ StderrData
    \/ ErrorEvent
    \/ CloseEvent

PipeSpec == PipeInit /\ [][PipeNext]_vars

----------------------------------------------------------------------------
\* One call of getClipboardImageNative (lines 98-115) on a host without the
\* Windows tools, while the user may change the clipboard between its awaits.

\* The base64 text of the images, and Buffer.from(text, "base64").
Base64 == [b \in Buffers |-> IF b = "imgA" THEN "aW1nQQ==" ELSE "aW1nQg=="]

EmptyBuffer == ""

BufferFrom(base64) ==
    IF \E b \in Buffers : Base64[b] = base64
    THEN CHOOSE b \in Buffers : Base64[b] = base64
    ELSE EmptyBuffer

\* A plausible slip: the test of the extraction's result is lost.
ExtractedUnchecked(base64) == BufferFrom(base64)

\* Lines 108-111: an empty extraction is null, any other one its bytes.
Extracted(base64) == IF base64 = "" THEN Null ELSE BufferFrom(base64)

\* Lines 100-103: the clipboard module is loaded and hasImage() called; if
\* the module cannot be loaded, the catch of line 112 returns null.
NativeCall ==
    /\ native.pc = "none"
    /\ ~UsesWindowsTools(ProcVersion(host))
    /\ \E requireOk \in BOOLEAN :
         native' = IF requireOk THEN [native EXCEPT !.pc = "hasImage"]
                   ELSE [native EXCEPT !.pc = "returned", !.ret = Null]
    /\ UNCHANGED <<besidesNative, clipboard>>

\* Lines 103-107: hasImage() settles: it rejects, or tells whether the
\* clipboard holds an image; getImageBase64() is called if it does.
HasImageSettles ==
    /\ native.pc = "hasImage"
    /\ \E toolOk \in BOOLEAN :
         native' = IF ~toolOk
                   THEN [native EXCEPT !.pc = "returned", !.has = "threw", !.ret = Null]
                   ELSE IF clipboard \in Buffers
                   THEN [native EXCEPT !.pc = "getImage", !.has = "true",
                                       !.extractions = @ + 1]
                   ELSE [native EXCEPT !.pc = "returned", !.has = "false", !.ret = Null]
    /\ UNCHANGED <<besidesNative, clipboard>>

\* Lines 107-114: getImageBase64() settles: it rejects, or gives the base64
\* text of the image on the clipboard, the empty string if there is none by
\* now.
GetImageSettles ==
    /\ native.pc = "getImage"
    /\ \E toolOk \in BOOLEAN :
         native' = IF ~toolOk
                   THEN [native EXCEPT !.pc = "returned", !.base64 = "threw", !.ret = Null]
                   ELSE LET base64 == IF clipboard \in Buffers THEN Base64[clipboard] ELSE ""
                        IN [native EXCEPT !.pc = "returned", !.base64 = base64,
                                          !.ret = Extracted(base64)]
    /\ UNCHANGED <<besidesNative, clipboard>>

\* The user copies something else while the call is suspended.
CopyMeanwhile ==
    /\ native.pc \in {"hasImage", "getImage"}
    /\ \E c \in Buffers \cup {OtherContent} :
         /\ c # clipboard
         /\ clipboard' = c
    /\ UNCHANGED <<besidesNative, native>>

NativeInit ==
    /\ defn \in {1, 2}
    /\ host \in {"unix", "darwin"}
    /\ remote \in Targets
    /\ phase = "running"
    /\ startupError = "none"
    /\ logDir = "exists"
    /\ lastImageHash = Null
    /\ clipboard \in Buffers \cup {OtherContent}
    /\ clipTouched = FALSE
    /\ inflight = <<>>
    /\ lastTurn = NoTick
    /\ now = 0
    /\ env = Unset
    /\ flaky = FALSE
    /\ LogIdle
    /\ HintIdle
    /\ ToolIdle

NativeNext ==
    \/ NativeCall
    \/ HasImageSettles
    \/ GetImageSettles
    \/ CopyMeanwhile

NativeSpec == NativeInit /\ [][NativeNext]_vars

----------------------------------------------------------------------------
\* The start command of index.ts (lines 273-298) on a host where clipshot
\* daemons may already run: killAllClipshotProcesses (lines 71-85), then
\* startBackground (lines 153-175).

\* How many daemons may run before the command.
MaxDaemons == 2

\* findClipshotProcesses (lines 18-57): the pids the scan lists; when pgrep
\* or PowerShell fails, the catch of lines 52-54 leaves the list empty.
findClipshotProcesses(scanOk) == IF scanOk THEN daemons ELSE {}

\* What loadConfig (config.ts lines 19-26) may find: no file, a file that
\* JSON.parse rejects, or a configuration with its remotes.
Configs ==
    { [file |-> "absent", remotes |-> <<>>],
      [file |-> "malformed", remotes |-> <<>>],
      [file |-> "ok", remotes |-> <<>>],
      [file |-> "ok", remotes |-> <<"bob@srv">>] }

\* A plausible slip: only a missing configuration is refused.
NoRemotesWhenAbsent(config) == config.file = "absent"

\* Line 276: !config || config.remotes.length === 0.
NoRemotes(config) == config.file = "absent" \/ config.remotes = <<>>

\* Lines 281-289: "local" and the remotes; the user selects one of them.
Options(config) == {"local"} \cup {config.remotes[i] : i \in 1..Len(config.remotes)}

\* Lines 273-292 and 72: the configuration is loaded; if loadConfig throws,
\* main's catch prints the error; without remotes the process exits with
\* status 1; otherwise the target is selected, then the first scan.
StartCommand ==
    /\ cmd.pc = "none"
    /\ \E config \in Configs :
         IF config.file = "malformed"
         THEN cmd' = [cmd EXCEPT !.pc = "threw", !.config = config]
         ELSE IF NoRemotes(config)
         THEN cmd' = [cmd EXCEPT !.pc = "exited", !.config = config, !.status = "1"]
         ELSE \E selected \in Options(config), scanOk \in BOOLEAN :
                cmd' = [cmd EXCEPT !.pc = "graceful", !.config = config,
                                   !.selected = selected,
                                   !.processes = findClipshotProcesses(scanOk)]
    /\ UNCHANGED <<besidesStart, daemons, dying>>

\* What follows --daemon on the command line: nothing, an empty argument,
\* or a target.
DaemonArgs == {Unset, ""} \cup Targets

\* Line 307: if (remote).
Given(arg) == arg # Unset /\ arg # ""

\* Lines 300-311: main with --daemon: startMonitor(remote) if a target
\* follows, and the return.
DaemonCommand ==
    /\ cmd.pc = "none"
    /\ \E arg \in DaemonArgs :
         cmd' = [cmd EXCEPT !.pc = IF Given(arg) THEN "daemon" ELSE "returned",
                            !.arg = arg,
                            !.monitor = IF Given(arg) THEN arg ELSE Unset]
    /\ UNCHANGED <<besidesStart, daemons, dying>>

\* Lines 74-76: killProcess(pid) for every listed process: SIGTERM or
\* taskkill reaches the process, or fails (the process has exited, or is
\* not the user's to signal) and the error is swallowed (lines 66-68).
GracefulKills ==
    /\ cmd.pc = "graceful"
    /\ \E reached \in SUBSET (cmd.processes \cap daemons) :
         dying' = dying \cup reached
    /\ cmd' = [cmd EXCEPT !.pc = "rescan"]
    /\ UNCHANGED <<besidesStart, daemons>>

\* Line 79: the second scan lists what still runs.
SecondScan ==
    /\ cmd.pc = "rescan"
    /\ \E scanOk \in BOOLEAN :
         cmd' = [cmd EXCEPT !.pc = "forced", !.remaining = findClipshotProcesses(scanOk)]
    /\ UNCHANGED <<besidesStart, daemons, dying>>

\* Lines 80-82: killProcess(pid, true) for every process of the second
\* list, errors swallowed as before.
ForcedKills ==
    /\ cmd.pc = "forced"
    /\ \E reached \in SUBSET (cmd.remaining \cap daemons) :
         dying' = dying \cup reached
    /\ cmd' = [cmd EXCEPT !.pc = "spawn"]
    /\ UNCHANGED <<besidesStart, daemons>>

\* Lines 293-297 and 153-175: startBackground spawns the new daemon,
\* detached; if the spawn fails, the command ends without one.
StartBackground ==
    /\ cmd.pc = "spawn"
    /\ \E spawnOk \in BOOLEAN :
         IF spawnOk
         THEN /\ daemons' = daemons \cup {MaxDaemons + 1}
              /\ cmd' = [cmd EXCEPT !.pc = "done", !.child = MaxDaemons + 1]
         ELSE /\ daemons' = daemons
              /\ cmd' = [cmd EXCEPT !.pc = "failed"]
    /\ UNCHANGED <<besidesStart, dying>>

\* A daemon that a signal has reached exits.
DaemonExit ==
    /\ \E d \in dying :
         /\ daemons' = daemons \ {d}
         /\ dying' = dying \ {d}
    /\ UNCHANGED <<besidesStart, cmd>>

StartInit ==
    /\ defn \in {1, 2}
    /\ host \in Hosts
    /\ remote \in Targets
    /\ phase = "init"
    /\ startupError = "none"
    /\ logDir = "exists"
    /\ lastImageHash = Null
    /\ clipboard = OtherContent
    /\ clipTouched = FALSE
    /\ inflight = <<>>
    /\ lastTurn = NoTick
    /\ now = 0
    /\ env = Unset
    /\ flaky = FALSE
    /\ LogIdle
    /\ HintIdle
    /\ SinkIdle /\ WatchIdle /\ PipeIdle /\ NativeIdle /\ ConfigIdle
    /\ daemons \in SUBSET (1..MaxDaemons)
    /\ dying = {}
    /\ cmd = NoCommand

StartNext ==
    \/ StartCommand
    \/ DaemonCommand
    \/ GracefulKills
    \/ SecondScan
    \/ ForcedKills
    \/ StartBackground
    \/ DaemonExit

StartSpec == StartInit /\ [][StartNext]_vars

----------------------------------------------------------------------------
\* detectSSHFromHistory (config.ts lines 79-123).  A history line is its
\* words, a word its runs of the characters [\w.-] and the other characters
\* between them, one by one.

\* How many lines the two history files hold together, and the largest limit.
MaxHistory == 3
MaxLimit == 2

\* The characters of the lines below that are not in [\w.-].
Specials == {"@", ";", "|", "&", ":", "/", "="}

\* The runs that begin with "-".
DashRuns == {"-p", "-oUser"}

\* ls / ssh bob@srv / ssh -p 22 root@srv / ssh al@box / ssh bob@srv;ls /
\* ssh srv / ssh git@github.com:repo / ssh -oUser=al@box srv /
\* : 1700000000:0;ssh root@srv (a line of zsh's extended history).
HistoryLines ==
    { << <<"ls">> >>,
      << <<"ssh">>, <<"bob", "@", "srv">> >>,
      << <<"ssh">>, <<"-p">>, <<"22">>, <<"root", "@", "srv">> >>,
      << <<"ssh">>, <<"al", "@", "box">> >>,
      << <<"ssh">>, <<"bob", "@", "srv", ";", "ls">> >>,
      << <<"ssh">>, <<"srv">> >>,
      << <<"ssh">>, <<"git", "@", "github.com", ":", "repo">> >>,
      << <<"ssh">>, <<"-oUser", "=", "al", "@", "box">>, <<"srv">> >>,
      << <<":">>, <<"1700000000", ":", "0", ";", "ssh">>, <<"root", "@", "srv">> >> }

\* \bssh\s+ : the word ends with ssh, which a character outside \w precedes.
EndsWithSsh(w) ==
    /\ w[Len(w)] = "ssh"
    /\ Len(w) = 1 \/ w[Len(w) - 1] \in Specials

NoAt(w) == \A i \in 1..Len(w) : w[i] # "@"

\* \S+@\S+? up to the next white space: a word with an "@" inside.
AtInside(w) == \E i \in 2..(Len(w) - 1) : w[i] = "@"

\* Line 98: match[1] of the leftmost, shortest match in the line, or <<>>.
MatchRemote(line) ==
    LET Fits(i, j) ==
            /\ EndsWithSsh(line[i])
            /\ AtInside(line[j])
            /\ \A k \in (i + 1)..(j - 1) : NoAt(line[k])
        starts == {i \in 1..Len(line) : \E j \in (i + 1)..Len(line) : Fits(i, j)}
    IN IF starts = {} THEN <<>>
       ELSE LET i == CHOOSE a \in starts : \A b \in starts : a <= b
                ends == {j \in (i + 1)..Len(line) : Fits(i, j)}
            IN line[CHOOSE a \in ends : \A b \in ends : a <= b]

\* Line 102: remote.includes("@") && !remote.startsWith("-").
Accepted(w) == ~NoAt(w) /\ w[1] \notin DashRuns

\* Line 104: remote.replace(/[;|&].*$/, "").
Clean(w) ==
    LET cuts == {i \in 1..Len(w) : w[i] \in {";", "|", "&"}}
    IN IF cuts = {} THEN w
       ELSE SubSeq(w, 1, (CHOOSE a \in cuts : \A b \in cuts : a <= b) - 1)

\* Line 105: clean.match(/^[\w.-]+@[\w.-]+$/).
WellFormed(c) ==
    Len(c) = 3 /\ c[1] \notin Specials /\ c[2] = "@" /\ c[3] \notin Specials

\* Lines 107-110: remotes.indexOf(clean), remotes.splice(idx, 1).
RemoveFirst(remotes, x) ==
    LET found == {i \in 1..Len(remotes) : remotes[i] = x}
    IN IF found = {} THEN remotes
       ELSE RemoveAt(remotes, CHOOSE a \in found : \A b \in found : a <= b)

\* Lines 96-115: the remotes list after the lines of one file.
RECURSIVE Track(_, _)
Track(remotes, lines) ==
    IF lines = <<>> THEN remotes
    ELSE LET matched == MatchRemote(Head(lines))
             clean == Clean(matched)
         IN IF matched # <<>> /\ Accepted(matched) /\ WellFormed(clean)
            THEN Track(Append(RemoveFirst(remotes, Text(clean)), Text(clean)), Tail(lines))
            ELSE Track(remotes, Tail(lines))

\* Array.prototype.slice(start) with a start that may be negative.
Slice(seq, start) ==
    LET from == IF start < 0
                THEN (IF Len(seq) + start < 0 THEN 0 ELSE Len(seq) + start)
                ELSE (IF start > Len(seq) THEN Len(seq) ELSE start)
    IN SubSeq(seq, from + 1, Len(seq))

Reverse(seq) == [i \in 1..Len(seq) |-> seq[Len(seq) + 1 - i]]

\* Line 122: remotes.slice(-limit).reverse().
LastN(remotes, limit) == Reverse(Slice(remotes, 0 - limit))

\* detectSSHFromHistory(limit): .bash_history, then .zsh_history; a file
\* that is missing or cannot be read adds nothing.
detectSSHFromHistory(bash, zsh, limit) == LastN(Track(Track(<<>>, bash), zsh), limit)

\* The user runs a command in a shell, which appends it to its history file.
RunInShell ==
    /\ history.pc = "none"
    /\ Len(history.bash) + Len(history.zsh) < MaxHistory
    /\ \E line \in HistoryLines :
         \/ history' = [history EXCEPT !.bash = Append(@, line)]
         \/ history' = [history EXCEPT !.zsh = Append(@, line)]
    /\ UNCHANGED <<besidesConfig, setup>>

\* One call of detectSSHFromHistory.
DetectCall ==
    /\ history.pc = "none"
    /\ \E limit \in 0..MaxLimit, bashOk, zshOk \in BOOLEAN :
         /\ bashOk \/ history.bash # <<>>
         /\ zshOk \/ history.zsh # <<>>
         /\ history' = [history EXCEPT
                          !.pc = "returned",
                          !.bash = IF bashOk THEN @ ELSE <<>>,
                          !.zsh = IF zshOk THEN @ ELSE <<>>,
                          !.limit = limit,
                          !.result = detectSSHFromHistory(IF bashOk THEN history.bash ELSE <<>>,
                                                          IF zshOk THEN history.zsh ELSE <<>>,
                                                          limit)]
    /\ UNCHANGED <<besidesConfig, setup>>

HistoryInit ==
    /\ MonitorIdle
    /\ LogIdle
    /\ HintIdle
    /\ ToolIdle

HistoryNext ==
    \/ RunInShell
    \/ DetectCall

HistorySpec == HistoryInit /\ [][HistoryNext]_vars

----------------------------------------------------------------------------
\* addRemotes (index.ts lines 93-151): the remotes detected in ~/.ssh/config
\* and in the shell histories, the prompts, and the list it returns.

\* How many Host blocks ~/.ssh/config has, and how many custom remotes the
\* user is asked for.
MaxHosts == 2
MaxInputs == 2

\* What detectSSHRemotes (config.ts lines 37-77) returns for a Host block:
\* its first name and, if the block has a User line, the user.
SSHHosts ==
    { [name |-> "srv", user |-> Null],
      [name |-> "srv", user |-> "bob"],
      [name |-> "devbox", user |-> Null] }

\* The lists of at most n Host blocks, in the order of the file.
RECURSIVE HostLists(_)
HostLists(n) ==
    IF n = 0 THEN {<<>>}
    ELSE HostLists(n - 1) \cup
         {Append(l, h) : l \in {k \in HostLists(n - 1) : Len(k) = n - 1}, h \in SSHHosts}

\* What detectSSHFromHistory() may return.
HistoryResults ==
    {<<>>, <<"bob@srv">>, <<"root@srv">>, <<"bob@srv", "root@srv">>, <<"root@srv", "bob@srv">>}

\* The lists addRemotes is called with: [] and the remotes the user keeps
\* (lines 246 and 263).
ExistingLists == {<<>>, <<"bob@srv">>, <<"srv">>, <<"srv", "bob@srv">>}

\* What the user may type as a custom remote.
Inputs == {"", "bob@srv", "alice@10.0.0.7"}

Includes(list, x) == \E i \in 1..Len(list) : list[i] = x

\* Line 103: user@name if the block names a user, else the name.
RemoteName(h) == IF h.user # Null THEN h.user \o "@" \o h.name ELSE h.name

\* Line 124: the text of a choice.
Label(d) == d.name \o " (" \o d.source \o ")"

\* Lines 100-110: the hosts of the ssh configuration that are not in the
\* list yet.
RECURSIVE FromConfig(_, _, _)
FromConfig(all, existing, hosts) ==
    IF hosts = <<>> THEN all
    ELSE FromConfig(IF ~Includes(existing, RemoteName(Head(hosts)))
                    THEN Append(all, [name |-> RemoteName(Head(hosts)), source |-> "config"])
                    ELSE all,
                    existing, Tail(hosts))

\* Lines 113-121: the remotes of the histories that are neither in the list
\* nor detected yet.
RECURSIVE FromHistory(_, _, _)
FromHistory(all, existing, found) ==
    IF found = <<>> THEN all
    ELSE FromHistory(IF /\ ~Includes(existing, Head(found))
                        /\ \A i \in 1..Len(all) : all[i].name # Head(found)
                     THEN Append(all, [name |-> Head(found), source |-> "history"])
                     ELSE all,
                     existing, Tail(found))

\* Lines 131-136: for every selected text the first detected remote with
\* this text is pushed.
RECURSIVE PushSelected(_, _, _)
PushSelected(list, all, selected) ==
    IF selected = <<>> THEN list
    ELSE LET hits == {i \in 1..Len(all) : Label(all[i]) = Head(selected)}
         IN PushSelected(IF hits = {} THEN list
                         ELSE Append(list, all[CHOOSE a \in hits : \A b \in hits : a <= b].name),
                         all, Tail(selected))

\* The texts of the choices the user has enabled, in the order of the choices.
RECURSIVE Enabled(_, _, _)
Enabled(all, on, i) ==
    IF i > Len(all) THEN <<>>
    ELSE (IF i \in on THEN <<Label(all[i])>> ELSE <<>>) \o Enabled(all, on, i + 1)

\* Lines 93-123: the call up to its first prompt.
AddRemotesCall ==
    /\ setup.pc = "none"
    /\ \E existing \in ExistingLists, hosts \in HostLists(MaxHosts), found \in HistoryResults :
         \E all \in {FromHistory(FromConfig(<<>>, existing, hosts), existing, found)} :
            setup' = [setup EXCEPT !.pc = IF Len(all) > 0 THEN "select" ELSE "confirm",
                                   !.existing = existing,
                                   !.detected = all,
                                   !.remotes = existing]
    /\ UNCHANGED <<besidesConfig, history>>

\* Lines 126-140: promptMultiSelect resolves with the enabled choices, or
\* the user cancels and the process exits (prompts.ts lines 13-16).
SelectAnswer ==
    /\ setup.pc = "select"
    /\ \E cancel \in BOOLEAN, on \in SUBSET (1..Len(setup.detected)) :
         /\ cancel => on = {}
         /\ setup' = IF cancel THEN [setup EXCEPT !.pc = "cancelled"]
                     ELSE [setup EXCEPT
                             !.pc = "confirm",
                             !.remotes = PushSelected(@, setup.detected,
                                                      Enabled(setup.detected, on, 1))]
    /\ UNCHANGED <<besidesConfig, history>>

\* Lines 140-141 and 147-150: promptConfirm resolves.
ConfirmAnswer ==
    /\ setup.pc = "confirm"
    /\ \E addMore \in BOOLEAN :
         /\ addMore => setup.inputs < MaxInputs
         /\ setup' = [setup EXCEPT !.pc = IF addMore THEN "input" ELSE "returned"]
    /\ UNCHANGED <<besidesConfig, history>>

\* Lines 142-147: promptInput resolves with what the user typed.
InputAnswer ==
    /\ setup.pc = "input"
    /\ \E remoteName \in Inputs :
         setup' = [setup EXCEPT
                     !.pc = "confirm",
                     !.inputs = @ + 1,
                     !.remotes = IF remoteName # "" /\ ~Includes(@, remoteName)
                                 THEN Append(@, remoteName) ELSE @]
    /\ UNCHANGED <<besidesConfig, history>>

SetupInit ==
    /\ MonitorIdle
    /\ LogIdle
    /\ HintIdle
    /\ ToolIdle

SetupNext ==
    \/ AddRemotesCall
    \/ SelectAnswer
    \/ ConfirmAnswer
    \/ InputAnswer

SetupSpec == SetupInit /\ [][SetupNext]_vars

----------------------------------------------------------------------------
\* What the claims speak of.

\* The poll invocations in sight: the one the last step ran and the suspended
\* ones.
Ticks == {lastTurn} \cup {inflight[i] : i \in 1..Len(inflight)}

\* The last step ran the comparison of line 260.
Compared == lastTurn.cmp # Unset

\* saveLocal or pipeToRemote was called.
SinkInvoked(t) == t.sink # "none"

\* The sink reported a failure, or threw.
SinkFailed(t) == t.sink \in {"failed", "threw"}

\* poll's promise has settled.
Over(t) == t.pc \in {"settled", "rejected"}

\* Where in its trace an invocation called the clipboard writer, and where it
\* logged a message.
ClipIdx(t) == {i \in 1..Len(t.trace) : t.trace[i][1] = "clip"}

LogIdx(t, msg) == {i \in 1..Len(t.trace) : t.trace[i][1] = "log" /\ t.trace[i][2] = msg}

AnyLogIdx(t) == {i \in 1..Len(t.trace) : t.trace[i][1] = "log"}

\* C1: a poll invocation enters the delivery branch for an acquired buffer
\* exactly when the buffer's fingerprint differs from lastImageHash at the
\* comparison; entering it makes that fingerprint lastImageHash, so the next
\* detection carries another one; a sink is called only in that branch, and
\* is called there unless an exception (the 'New screenshot' log call
\* throwing) ends the turn first; a tie calls nothing and changes nothing.
C1_DeliveryExactlyOnNewFingerprint ==
    /\ \A t \in Ticks : SinkInvoked(t) => t.novel
    /\ Compared =>
         /\ lastTurn.novel <=> getImageHash(lastTurn.buf) # lastTurn.cmp
         /\ lastTurn.novel => lastImageHash = getImageHash(lastTurn.buf)
         /\ ~lastTurn.novel =>
              /\ lastImageHash = lastTurn.cmp
              /\ ~SinkInvoked(lastTurn)
              /\ lastTurn.trace = <<>>
         /\ lastTurn.novel /\ ~SinkInvoked(lastTurn) =>
              /\ lastTurn.raised
              /\ LogIdx(lastTurn, MsgNew) = {}

\* C1 witness: an invocation acquires an image whose fingerprint is already
\* lastImageHash and drops it, while another invocation's delivery is still
\* under way.
C1_Witness ==
    /\ Compared /\ ~lastTurn.novel /\ lastTurn.buf # Null
    /\ \E i \in 1..Len(inflight) : inflight[i].pc = "sink"

\* C2: at most one poll invocation is between its start and its completion.
C2_TicksNeverOverlap == Len(inflight) <= 1

C5_NoClipboardWriteOnFailure ==
    /\ [](\A t \in Ticks : SinkFailed(t) => ClipIdx(t) = {})
    /\ [][SinkFailed(lastTurn') => clipboard' = clipboard]_vars

\* C5 witness: a remote delivery has failed and the image is still on the
\* clipboard.
C5_Witness ==
    /\ lastTurn.pc = "settled" /\ lastTurn.sink = "failed"
    /\ remote # "local" /\ clipboard \in Buffers

\* C6: when a sink has been called in the turn of the comparison,
\* lastImageHash already is the new fingerprint; an invocation that acquires
\* bytes whose fingerprint is lastImageHash calls no sink; and lastImageHash
\* changes only when the seeding stores a fingerprint or an invocation enters
\* the delivery branch with a fingerprint that differs from it: no failure
\* rolls it back.
C6_HashSetBeforeDeliveryNeverRolledBack ==
    /\ []((Compared /\ SinkInvoked(lastTurn)) => lastImageHash = getImageHash(lastTurn.buf))
    /\ []((Compared /\ getImageHash(lastTurn.buf) = lastTurn.cmp) =>
            (~SinkInvoked(lastTurn) /\ lastImageHash = lastTurn.cmp))
    /\ [][lastImageHash' # lastImageHash =>
            \/ lastTurn'.pc = "seed" /\ lastImageHash' = getImageHash(lastTurn'.buf)
            \/ /\ lastTurn'.novel
               /\ lastTurn'.cmp = lastImageHash
               /\ lastImageHash' = getImageHash(lastTurn'.buf)]_vars

\* C6 witness: a delivery has failed in the turn of its comparison and
\* lastImageHash is the failed image's fingerprint.
C6_Witness ==
    /\ Compared /\ lastTurn.pc = "settled" /\ lastTurn.sink = "failed"
    /\ lastImageHash = getImageHash(lastTurn.buf)

\* C7: a failed remote delivery (no log call throwing) has logged a line with
\* the target and, when the transport produced stderr text or a spawn error
\* message, a further line with that text.
C7_RemoteFailureLoggedWithDetail ==
    (Over(lastTurn) /\ remote # "local" /\ lastTurn.sink = "failed" /\ ~lastTurn.raised) =>
      /\ \E i \in LogIdx(lastTurn, MsgFailedSend) : lastTurn.trace[i][3] = remote
      /\ lastTurn.stderr # "" =>
           \E i \in LogIdx(lastTurn, MsgErrorDetail) : lastTurn.trace[i][3] = lastTurn.stderr

\* C8: an exception raised in a poll invocation is caught and logged, and the
\* loop goes on.
C8_ExceptionLoggedLoopContinues ==
    lastTurn.raised =>
      /\ lastTurn.pc = "settled"
      /\ LogIdx(lastTurn, MsgException) # {}
      /\ phase = "running"

\* C9: once the daemon polls, no error ends the process.
C9_NoErrorFatalAfterStartup == phase # "crashed"

\* C10: when the log directory cannot be created, startMonitor fails at its
\* first statement: the seeding acquisition is not made, the interval is not
\* scheduled, no poll invocation ever runs and nothing is delivered.
C10_LogDirFailureAbortsStartup ==
    logDir = "uncreatable" =>
      /\ phase \in {"init", "aborted"}
      /\ phase = "aborted" => startupError = "mkdir"
      /\ lastImageHash = Null
      /\ inflight = <<>>
      /\ lastTurn = NoTick
      /\ ~clipTouched

\* C10 witness: startMonitor has failed on the log directory.
C10_Witness == phase = "aborted" /\ startupError = "mkdir"

\* Where in its trace an invocation called each sink.
SaveIdx(t) == {i \in 1..Len(t.trace) : t.trace[i][1] = "saveLocal"}

PipeIdx(t) == {i \in 1..Len(t.trace) : t.trace[i][1] = "pipeToRemote"}

\* C12: whenever an invocation calls the clipboard writer, its sink has
\* succeeded, the text it passes is the path the sink returned, the sink has
\* stored the bytes under the filename of this invocation, and the path is
\* <localDir>/<that name> for the local target and
\* <remote home hint>/clipshot-screenshots/<that name> for a remote one.
C12_ClipboardGetsTheSinkPath ==
    \A t \in Ticks :
      \A c \in ClipIdx(t) :
        /\ t.sink = "ok"
        /\ t.trace[c][3] = t.path
        /\ \A k \in SaveIdx(t) \cup PipeIdx(t) : k < c /\ t.trace[k][3] = t.path
        /\ t.stored # NoDest
        /\ t.stored.name = t.file
        /\ t.path = (IF remote = "local"
                     THEN getLocalScreenshotDir
                     ELSE RemoteHome(remote) \o "/clipshot-screenshots")
                    \o "/" \o t.stored.name

\* C12 witness: a remote delivery has succeeded and the path has been passed
\* to the clipboard writer.
C12_Witness ==
    /\ remote # "local" /\ lastTurn.pc = "settled"
    /\ ClipIdx(lastTurn) # {} /\ lastTurn.stored # NoDest

\* C14: every poll invocation that waits for an external tool has a timeout
\* that will resume it if the tool never exits.
C14_EveryAwaitBoundedByTimeout ==
    \A i \in 1..Len(inflight) :
      inflight[i].pc \in Suspended => Timeout(inflight[i].pc) > 0

\* C15: once a sink has returned, the result's path is the destination it
\* tried, whether it succeeded or failed; the local sink reports success only
\* when it has written the file, the remote one only when the subprocess has
\* exited with code 0 (a non-zero code and a spawn error are failures).
C15_PathInEveryResult ==
    \A t \in Ticks :
      /\ t.sink \in {"ok", "failed"} =>
           t.path = (IF remote = "local" THEN LocalPath(t.file)
                     ELSE RemotePath(remote, t.file))
      /\ (t.sink = "ok" /\ remote = "local") => t.stored = LocalDest(t.file)
      /\ (t.sink = "failed" /\ remote = "local") => t.stored = NoDest
      /\ (t.sink = "ok" /\ remote # "local") => (t.ev.kind = "close" /\ t.ev.code = 0)
      /\ (t.sink = "failed" /\ remote # "local") =>
           (t.ev.kind = "error" \/ (t.ev.kind = "close" /\ t.ev.code # 0))

\* C15 witness: the transport could not be started and the result still
\* carries the path.
C15_Witness ==
    /\ lastTurn.sink = "failed" /\ lastTurn.ev.kind = "error"
    /\ lastTurn.path = RemotePath(remote, lastTurn.file)

\* The last step ended an acquisition that returned null.
GotNull ==
    /\ lastTurn.acq # "none"
    /\ lastTurn.buf = Null
    /\ lastTurn.pc \notin {"hasImage", "getImage", "seed"}

\* C16: a poll invocation whose acquisition returned null (no image, a tool
\* failure, a timeout, a missing module; on every platform variant) has
\* raised nothing and ends there: it has called no sink, no clipboard writer
\* and no log, and has left lastImageHash and the clipboard as they were.
C16_NullAcquisitionDoesNothing ==
    /\ [](GotNull =>
            /\ lastTurn.pc = "settled"
            /\ ~lastTurn.raised
            /\ lastTurn.trace = <<>>
            /\ ~SinkInvoked(lastTurn)
            /\ lastTurn.copied = "none")
    /\ [][GotNull' => (lastImageHash' = lastImageHash /\ clipboard' = clipboard)]_vars

\* C16 witness: the PowerShell variant returns null although an image is on
\* the clipboard (the tool failed or timed out).
C16_Witness ==
    GotNull /\ lastTurn.acq = "windows" /\ clipboard \in Buffers

\* What a delivery that succeeds traces when no log call throws, whatever the
\* clipboard write does.
DeliveredTrace(t, strategy) ==
    << <<"log", MsgNew, t.file>>,
       IF remote = "local" THEN <<"saveLocal", t.file, t.path>>
                           ELSE <<"pipeToRemote", remote, t.path>>,
       IF remote = "local" THEN <<"log", MsgSaved, t.path>>
                           ELSE <<"log", MsgSent, remote \o ":" \o t.path>>,
       <<"clip", strategy, t.path>>,
       <<"log", MsgCopied, "">> >>

\* C17: a poll invocation whose clipboard write failed, and in which no log
\* call threw, has raised nothing and has settled having made the calls of a
\* delivery whose write succeeded: the same stored file, the same log lines
\* up to 'Copied to clipboard', no error line; the turn of the failure does
\* not change lastImageHash unless it is the turn of the comparison.
C17_ClipboardFailureSwallowed ==
    /\ []((lastTurn.copied = "failed" /\ lastTurn.cause # "log") =>
            /\ ~lastTurn.raised
            /\ lastTurn.pc = "settled"
            /\ lastTurn.sink = "ok" /\ lastTurn.stored # NoDest
            /\ \E strategy \in {"windows", "native"} :
                 lastTurn.trace = DeliveredTrace(lastTurn, strategy)
            /\ Compared => lastImageHash = getImageHash(lastTurn.buf))
    /\ [][(lastTurn'.copied = "failed" /\ ~Compared') =>
            lastImageHash' = lastImageHash]_vars

\* C17 witness: the clipboard write has failed and the invocation has
\* settled with its 'Copied to clipboard' line.
C17_Witness ==
    /\ lastTurn.copied = "failed" /\ lastTurn.pc = "settled"
    /\ LogIdx(lastTurn, MsgCopied) # {}

\* The strategy that goes with the environment startMonitor determined.
StartupStrategy == IF env \in {"Windows", "WSL"} THEN "windows" ELSE "native"

\* C19: every acquisition and every clipboard write of a run uses the
\* strategy of the environment determined at startup.
C19_StrategyFixedAtStartup ==
    env # Unset =>
      /\ \A t \in Ticks : t.acq \in {"none", StartupStrategy}
      /\ \A t \in Ticks : \A c \in ClipIdx(t) : t.trace[c][2] = StartupStrategy

\* C20: startMonitor's argument never changes, and every sink call of a run
\* follows it: saveLocal is called only for "local", pipeToRemote only for
\* another target and with that target as its host, and only a remote run has
\* an invocation waiting for the transport.
C20_TargetFixedAtStart ==
    /\ [][remote' = remote]_vars
    /\ [](\A t \in Ticks :
            /\ SaveIdx(t) # {} => remote = "local"
            /\ \A k \in PipeIdx(t) : remote # "local" /\ t.trace[k][2] = remote
            /\ (SinkInvoked(t) /\ t.sink # "threw") =>
                 Cardinality(SaveIdx(t) \cup PipeIdx(t)) = 1
            /\ t.pc = "sink" => remote # "local")

\* C20 witness: a second delivery to the remote target is under way while an
\* earlier one has not finished.
C20_Witness ==
    /\ remote # "local"
    /\ lastTurn.pc = "sink" /\ PipeIdx(lastTurn) # {}
    /\ Len(inflight) = 2

\* The age of the log session at a log call, in milliseconds.
SessionAge == now * 1000 - logStartTime

\* C11: a log call made more than one hour after the session started (and
\* able to create the log directory) makes logFile a new name, distinct from
\* the session's, restarts the session at the time of the call and appends
\* to the new file; a log call made at most one hour after the start leaves
\* logFile and logStartTime as they are and appends to the session's file.
C11_RotationAfterOneHour ==
    [][lastLog'.called =>
         /\ (SessionAge > LOG_MAX_AGE_MS /\ logDir # "uncreatable") =>
              /\ logFile' # logFile
              /\ logFile' = LogName(now)
              /\ logStartTime' = now * 1000
              /\ lastLog'.file \in {Null, logFile'}
         /\ (SessionAge > LOG_MAX_AGE_MS /\ logDir = "uncreatable") =>
              /\ lastLog'.threw
              /\ logFile' = logFile /\ logStartTime' = logStartTime
         /\ SessionAge <= LOG_MAX_AGE_MS =>
              /\ logFile' = logFile
              /\ logStartTime' = logStartTime
              /\ lastLog'.file \in {Null, logFile}
         /\ ~lastLog'.threw =>
              LinesIn(files', lastLog'.file) = LinesIn(files, lastLog'.file) + 1]_vars

\* C11 witness: the session started at 0; a call 30 minutes later has
\* appended to its file, and a call 61 minutes after the start has opened a
\* second file and restarted the session there.
C11_Witness ==
    /\ lastLog.called /\ ~lastLog.threw
    /\ now = 3660 /\ logStartTime = 3660000
    /\ logFile = LogName(3660)
    /\ LinesIn(files, LogName(0)) >= 1
    /\ LinesIn(files, logFile) = 1

\* The home directory the claim derives from a target: /root or /home/<user>
\* for user@host; for a host alias the home of the user the ssh configuration
\* gives, and "~" when it gives none.
ClaimedHome(r, configured) ==
    LET user == IF MatchUser(Tokens(r)) # Null THEN MatchUser(Tokens(r)) ELSE configured
    IN IF user = Null THEN "~"
       ELSE IF user = "root" THEN "/root" ELSE "/home/" \o user

\* C13: the home directory pipeToRemote uses is the one the claim derives.
C13_RemoteHomeHint == hint.home # Unset => hint.home = ClaimedHome(remote, sshUser)

\* C18, as claimed: every log call appends exactly one line to the session's
\* file and to no other, writes the message to standard output exactly when
\* SHOTMON_BACKGROUND is unset, and no file loses a line.
C18_EveryLogCallAppendsOneLine ==
    [][lastLog'.called =>
         /\ LinesIn(files', logFile') = LinesIn(files, logFile') + 1
         /\ \A f \in DOMAIN files : f # logFile' => LinesIn(files', f) = files[f]
         /\ DOMAIN files' \subseteq DOMAIN files \cup {logFile'}
         /\ stdout' = (IF background = Null THEN stdout + 1 ELSE stdout)]_vars

\* C18, amended: a log call that returns has appended exactly one line to the
\* session's file (the file it has just opened, if it rotated) and to no
\* other, and has written the message to standard output exactly when
\* SHOTMON_BACKGROUND is unset or empty; a log call that throws (the directory
\* cannot be created, or the append fails) has appended nothing and written
\* nothing; no log call removes a file or a line.
C18_ReturningLogCallAppendsOneLine ==
    [][lastLog'.called =>
         /\ ~lastLog'.threw =>
              /\ lastLog'.file = logFile'
              /\ LinesIn(files', logFile') = LinesIn(files, logFile') + 1
              /\ \A f \in DOMAIN files : f # logFile' => LinesIn(files', f) = files[f]
              /\ DOMAIN files' = DOMAIN files \cup {logFile'}
              /\ stdout' = (IF background \in {Null, ""} THEN stdout + 1 ELSE stdout)
         /\ lastLog'.threw => (files' = files /\ stdout' = stdout)
         /\ \A f \in DOMAIN files : f \in DOMAIN files' /\ files'[f] >= files[f]]_vars

\* C18 witness: in a background run two log calls have appended a line each
\* and nothing has been written to standard output.
C18_Witness ==
    /\ background = "1"
    /\ lastLog.called /\ ~lastLog.threw
    /\ LinesIn(files, logFile) = 2 /\ stdout = 0

\* C21: once the daemon polls it has no terminal state: whatever a poll
\* invocation does, the daemon polls afterwards.
C21_NoTerminalState == [][phase = "running" => phase' = "running"]_vars

\* The last two calls of saveLocal, when both succeeded.
LastTwoSaved ==
    /\ Len(saves) >= 2
    /\ saves[Len(saves) - 1].success
    /\ saves[Len(saves)].success

\* C22: when the same bytes have been delivered to the local sink twice in
\* a row under two different filenames, the directory holds two distinct
\* files, and reading either back gives the delivered bytes (the first file
\* is as the first delivery left it).
C22_SameBytesTwoNamesTwoFiles ==
    LET first == saves[Len(saves) - 1]
        second == saves[Len(saves)]
    IN (LastTwoSaved /\ first.bytes = second.bytes /\ first.file # second.file) =>
         /\ first.path # second.path
         /\ {first.path, second.path} \subseteq DOMAIN disk
         /\ ReadBack(disk, first.path) = first.bytes
         /\ ReadBack(disk, second.path) = second.bytes

\* C22 witness: the same bytes have been saved in two different seconds.
C22_Witness ==
    /\ LastTwoSaved
    /\ saves[Len(saves) - 1].bytes = saves[Len(saves)].bytes
    /\ saves[Len(saves) - 1].file # saves[Len(saves)].file
    /\ Cardinality(DOMAIN disk) = 2

\* C27: of two successive deliveries, those detected in different wall-clock
\* seconds get different filenames and different paths; those detected in
\* the same second get the same filename and the same path, and once the
\* second is written the one file at that path holds the second's bytes.
C27_FilenameFromWholeSecond ==
    Len(saves) >= 2 =>
      LET first == saves[Len(saves) - 1]
          second == saves[Len(saves)]
      IN /\ Seconds(first.at) # Seconds(second.at) =>
              (first.file # second.file /\ first.path # second.path)
         /\ Seconds(first.at) = Seconds(second.at) =>
              /\ first.file = second.file
              /\ first.path = second.path
              /\ second.success => ReadBack(disk, first.path) = second.bytes

\* C27 witness: two different images have been saved half a second apart in
\* the same second, and the file holds the second one.
C27_Witness ==
    /\ LastTwoSaved
    /\ saves[Len(saves) - 1].at # saves[Len(saves)].at
    /\ Seconds(saves[Len(saves) - 1].at) = Seconds(saves[Len(saves)].at)
    /\ saves[Len(saves) - 1].bytes # saves[Len(saves)].bytes
    /\ Cardinality(DOMAIN disk) = 1
    /\ ReadBack(disk, saves[Len(saves)].path) = saves[Len(saves)].bytes

\* The newest screenshot file at an acquisition's time: too young, or old
\* enough for the file-watch source.
Eligible(at) == shot # NoShot /\ at - shot.mtime >= DebounceMs

\* C23: on macOS an acquisition does not return a screenshot file less than
\* 300 ms old, and the first acquisition made once the newest file is 300 ms
\* old returns that file.
C23_DebouncedFileReturnedOnce ==
    acquired # NoAcquisition =>
      /\ (acquired.source = "file" => Eligible(acquired.at))
      /\ (Eligible(acquired.at) /\ ~Eligible(acquired.prev)) =>
           (acquired.source = "file" /\ acquired.image = shot.bytes)

\* The last step ran a poll invocation to its end without a new image: its
\* acquisition returned null, or bytes whose fingerprint was lastImageHash.
Quiet ==
    \/ GotNull
    \/ Compared /\ getImageHash(lastTurn.buf) = lastTurn.cmp

\* C24: a poll invocation that acquires no image, or bytes whose fingerprint
\* is lastImageHash, leaves lastImageHash and the clipboard as they are,
\* stores no file and logs nothing; lastImageHash, once set, is never null
\* again, and an image whose fingerprint it holds is not delivered, whatever
\* the clipboard held in between.
C24_QuietTickChangesNothing ==
    /\ [](Quiet =>
            /\ lastTurn.trace = <<>>
            /\ lastTurn.stored = NoDest /\ ~SinkInvoked(lastTurn)
            /\ lastTurn.copied = "none"
            /\ ~lastTurn.novel)
    /\ [][Quiet' => (lastImageHash' = lastImageHash /\ clipboard' = clipboard)]_vars
    /\ [][lastImageHash # Null => lastImageHash' # Null]_vars

\* C24 witness: the clipboard held no image at one poll invocation, the user
\* has put the delivered image back, and the next invocation, comparing it
\* while the other one is still suspended, drops it.
C24_Witness ==
    /\ Compared /\ ~lastTurn.novel
    /\ clipTouched /\ clipboard = lastTurn.buf
    /\ lastImageHash = getImageHash(lastTurn.buf)
    /\ \E i \in 1..Len(inflight) : inflight[i].pc = "hasImage"

\* A trace without the line of the catch handler, if it ends with one.
Body(t) ==
    IF Len(t.trace) > 0 /\ t.trace[Len(t.trace)] = <<"log", MsgException, "exception">>
    THEN SubSeq(t.trace, 1, Len(t.trace) - 1)
    ELSE t.trace

IsPrefix(a, b) == Len(a) <= Len(b) /\ a = SubSeq(b, 1, Len(a))

\* The events after the sink call of a delivery that failed are failure lines.
OnlyFailureLines(tr) ==
    \A i \in 3..Len(tr) :
        tr[i][1] = "log" /\ tr[i][2] \in {MsgFailedLocal, MsgFailedSend, MsgErrorDetail}

PathOf(t) ==
    IF LocalBranch(remote) THEN LocalPath(generateFilename(t))
    ELSE RemotePath(remote, generateFilename(t))

\* C26: the clipboard text written by the daemon is the path of the most
\* recently detected image whose delivery succeeded: no step replaces the
\* path of an image by the path of an image detected before it.
C26_LaterPathNeverOverwritten ==
    [][\A t0, t1 \in 0..MaxTime :
         (t0 < t1 /\ clipboard = PathOf(t1)) => clipboard' # PathOf(t0)]_vars

\* C28: a call of pipeToRemote whose subprocess has emitted an event has
\* resolved, to the value the first event gives: success exactly when that
\* event is a 'close' with exit code 0, never after a spawn error; a later
\* event calls resolve again and changes nothing.
C28_PipeResolvesOnceByFirstEvent ==
    /\ [](proc.events # <<>> =>
            /\ promise.state = "fulfilled"
            /\ promise.calls = Len(proc.events)
            /\ promise.value.success =
                 (proc.events[1].kind = "close" /\ proc.events[1].code = 0)
            /\ promise.value.error = (IF defn = 1 THEN proc.events[1].text ELSE "")
            /\ (\E i \in 1..Len(proc.events) : proc.events[i].kind = "error") =>
                  ~promise.value.success)
    /\ [](proc.events = <<>> => (promise.state # "fulfilled" /\ promise.calls = 0))
    /\ [][promise.state = "fulfilled" => promise' = [promise EXCEPT !.calls = promise'.calls]]_vars

\* C28 witness: the spawn failed, and 'close' has followed 'error'.
C28_Witness ==
    /\ Len(proc.events) = 2
    /\ proc.events[1].kind = "error" /\ proc.events[2].kind = "close"
    /\ promise.calls = 2 /\ ~promise.value.success

\* C29: getClipboardImageNative calls the extraction only after hasImage()
\* answered true, and at most once; when hasImage() answered false it
\* returns null without an extraction; an empty extraction is returned as
\* null, never as an empty buffer, and any other one as the image's bytes.
C29_ExtractionOnlyAfterHasImage ==
    /\ native.extractions <= 1
    /\ native.extractions > 0 <=> native.has = "true"
    /\ native.pc = "getImage" => native.has = "true"
    /\ native.pc = "returned" =>
         /\ native.has = "false" => (native.ret = Null /\ native.extractions = 0)
         /\ native.base64 = "" => native.ret = Null
         /\ native.ret # EmptyBuffer
         /\ native.ret # Null =>
              (native.has = "true" /\ native.ret \in Buffers
               /\ Base64[native.ret] = native.base64)

\* C29 witness: hasImage() answered true, the user then replaced the image
\* by text, and the empty extraction was returned as null.
C29_Witness ==
    /\ native.pc = "returned" /\ native.has = "true"
    /\ native.extractions = 1 /\ native.base64 = "" /\ native.ret = Null

\* C30: when startCommand has completed, every daemon that ran before it
\* has been stopped: the daemons no termination signal has reached are at
\* most the one startBackground spawned.
C30_AtMostTheNewDaemonAfterStart ==
    cmd.pc = "done" =>
        /\ (daemons \ dying) \subseteq {cmd.child}
        /\ Cardinality(daemons \ dying) <= 1

\* C31: startCommand without a configuration, or with an empty remotes
\* list, exits with status 1 at once: it has made no scan, sent no signal
\* and spawned nothing, and the daemons are the ones that ran before; main
\* with --daemon and no target (or an empty one) returns without calling
\* startMonitor, and with a target calls it with that target.
C31_NoRemotesExitsDaemonNeedsTarget ==
    /\ [](cmd.pc = "exited" =>
            /\ cmd.status = "1"
            /\ cmd.processes = {} /\ cmd.remaining = {} /\ cmd.child = 0
            /\ dying = {} /\ daemons \subseteq 1..MaxDaemons)
    /\ []((cmd.config.file = "absent" \/ (cmd.config.file = "ok" /\ cmd.config.remotes = <<>>)) =>
            cmd.pc = "exited")
    /\ [][cmd'.pc = "exited" => (daemons' = daemons /\ dying' = dying)]_vars
    /\ [](cmd.pc \in {"daemon", "returned"} =>
            /\ cmd.arg \in {Unset, ""} <=> cmd.pc = "returned"
            /\ cmd.pc = "returned" => cmd.monitor = Unset
            /\ cmd.pc = "daemon" => cmd.monitor = cmd.arg)

\* C31 witness: with daemons running and a configuration whose remotes list
\* is empty, the start command has exited.
C31_Witness ==
    /\ cmd.pc = "exited" /\ cmd.config.file = "ok" /\ cmd.config.remotes = <<>>
    /\ daemons = 1..MaxDaemons

\* The remotes the lines of the history name, as the call read them.
Named(lines) ==
    {Text(Clean(MatchRemote(lines[i]))) : i \in
        {k \in 1..Len(lines) : /\ MatchRemote(lines[k]) # <<>>
                               /\ Accepted(MatchRemote(lines[k]))
                               /\ WellFormed(Clean(MatchRemote(lines[k])))}}

\* Where a remote appears last.
LastAppearance(lines, x) ==
    LET at == {k \in 1..Len(lines) : /\ MatchRemote(lines[k]) # <<>>
                                     /\ Text(Clean(MatchRemote(lines[k]))) = x}
    IN CHOOSE a \in at : \A b \in at : b <= a

\* The runs of [\w.-] that a user or host name may be.
NameRuns == {"bob", "root", "al", "git", "srv", "box", "github.com"}

C33_ExistingIsPrefixNoDuplicates ==
    setup.pc = "returned" =>
        /\ IsPrefix(setup.existing, setup.remotes)
        /\ (\A i, j \in 1..Len(setup.existing) : i # j => setup.existing[i] # setup.existing[j])
             => \A i, j \in 1..Len(setup.remotes) : i # j => setup.remotes[i] # setup.remotes[j]

====
